---- MODULE Spec2Model ----
(***************************************************************************)
(* A model of the easy-imap protocol engine (IMAPClient): tag generation,  *)
(* the single-connection command pipeline, the CRLF line framer and the    *)
(* close() facade operation, together with the environment they run in     *)
(* (the socket, the server at the far end of it, the write callbacks and   *)
(* the promise reactions of the JavaScript runtime).                       *)
(*                                                                         *)
(* Strings are sequences of one-character strings, so that split, join,    *)
(* startsWith and the template literals are computed as the code computes  *)
(* them.                                                                   *)
(***************************************************************************)
EXTENDS Integers, Sequences, FiniteSets, TLC

(***************************************************************************)
(* Bounds of the model.  Each specification explores one scenario: the     *)
(* clients the program constructs, the number of commands it submits and   *)
(* the number of lines the server sends (totals over the clients).         *)
(***************************************************************************)
\* Spec: commands accepted by sendCommand (tags allocated)
MaxCmds == 2
\* reactions that may be pending when one more submission is rejected
MaxPending == 1
\* Spec: lines the server sends
MaxServerLines == 2
\* QueueSpec: commands accepted, and lines the server sends
QueueCmds == 3
QueueLines == 1
\* The specification of the resolved value: one submission, and lines
\* enough for two untagged lines and the tagged one
BodyCmds == 1
BodyLines == 3
\* The specification of two instances: submissions and lines of both
TwoCmds == 3
TwoLines == 1
\* The specification of the framer: characters the server sends
FramerBytes == 6
\* The specification of a server that answers: submissions
LiveCmds == 2
\* characters in flight from the server to one client
MaxWire == 14
\* The specifications of the parsers: lines of the response text
ParserLines == 3
\* The specification of the facade: operations accepted, and lines the
\* server sends
FacadeCmds == 2
FacadeLines == 2
\* The specification of a server whose lines begin like a tag: commands
\* accepted, and lines the server sends
TagCmds == 2
TagLines == 2
\* The specification of a caller that connects again: commands accepted,
\* lines the server sends, and connections a client makes
ReconnectCmds == 2
ReconnectLines == 2
MaxSockets == 2
\* The specification of one stream cut in two ways: characters of the
\* stream
ChunkBytes == 5

\* The client objects a program may construct.
Clients == {"c1", "c2"}

(***************************************************************************)
(* Characters and string literals of the source.                           *)
(***************************************************************************)
SP == " "
CRLF == <<"\r", "\n">>
NL == <<"\n">>
OK == <<"O", "K">>
NotConnectedMessage ==
  <<"N","o","t"," ","c","o","n","n","e","c","t","e","d"," ","t","o"," ",
    "I","M","A","P"," ","s","e","r","v","e","r">>
CommandFailedPrefix ==
  <<"C","o","m","m","a","n","d"," ","f","a","i","l","e","d",":"," ">>
LogoutCommand == <<"L","O","G","O","U","T">>
\* the command text a caller passes to sendCommand directly
NoopCommand == <<"N","O","O","P">>
\* the message of the error a failed socket write reports
WriteErrorMessage == <<"E","P","I","P","E">>
\* the value of an absent array element (split(' ')[1] of a one-token line)
Undefined == <<"undefined", "">>

DigitChars == <<"0","1","2","3","4","5","6","7","8","9">>

\* `${n}` of a non-negative integer
RECURSIVE Decimal(_)
Decimal(n) ==
  IF n < 10 THEN <<DigitChars[n + 1]>>
  ELSE Decimal(n \div 10) \o <<DigitChars[(n % 10) + 1]>>

\* String.prototype.startsWith
StartsWith(s, prefix) ==
  /\ Len(s) >= Len(prefix)
  /\ SubSeq(s, 1, Len(prefix)) = prefix

\* the positions of s at which sub occurs
Occurrences(s, sub) ==
  {k \in 1..(Len(s) - Len(sub) + 1) : SubSeq(s, k, k + Len(sub) - 1) = sub}

\* the pieces of s between the cuts, each cut being width characters wide
\* and no two cuts overlapping; always at least one piece
Pieces(s, cuts, width) ==
  LET n == Cardinality(cuts)
      cut == [k \in 1..n |->
                CHOOSE p \in cuts : Cardinality({q \in cuts : q <= p}) = k]
      piece == [k \in 1..(n + 1) |->
                  SubSeq(s, IF k = 1 THEN 1 ELSE cut[k - 1] + width,
                            IF k = n + 1 THEN Len(s) ELSE cut[k] - 1)]
  IN SubSeq(piece, 1, n + 1)

\* String.prototype.split with a non-empty separator: the pieces between
\* the occurrences of sep; always at least one piece.  The separators of
\* the source (CRLF, a newline, a space) cannot overlap themselves, so
\* every occurrence is a cut.
Split(s, sep) == Pieces(s, Occurrences(s, sep), Len(sep))

\* Array.prototype.join
RECURSIVE Join(_, _)
Join(arr, sep) ==
  IF arr = <<>> THEN <<>>
  ELSE IF Len(arr) = 1 THEN arr[1]
  ELSE arr[1] \o sep \o Join(Tail(arr), sep)

RECURSIVE SumOver(_, _)
SumOver(S, f) ==
  IF S = {} THEN 0
  ELSE LET x == CHOOSE y \in S : TRUE IN f[x] + SumOver(S \ {x}, f)

(***************************************************************************)
(* State.  Every variable of IMAPClient is a function of the instance.      *)
(***************************************************************************)
VARIABLES
  scenario,        \* the clients that exist and the budgets of the run
  connected,       \* this.connected
  commandCounter,  \* this.commandCounter
  responseBuffer,  \* this.responseBuffer
  commandQueue,    \* this.commandQueue
  currentCommand,  \* this.currentCommand: <<>> is null, <<c>> the object c
  socket,          \* this.socket: 0 is null, n the n-th socket of the client
  sockState,       \* the socket: "none", "open", "ended" (end() called),
                   \* "destroyed" (a write failed), "closed" ('close' emitted)
  wire,            \* characters the server has sent and the client not yet read
  sentLines,       \* the lines the server has sent, in order
  received,        \* all chunks the data handler was given, concatenated
  pendingWrites,   \* socket.write callbacks not yet called, oldest first
  microtasks,      \* promise reactions not yet run, oldest first
  uncaught,        \* an exception escaped a callback
  history,         \* what the client did: writes, settlements, lines, end()
  response,        \* IMAPParser: the response text handed to a parser
  parsed           \* IMAPParser: what the parser returned for it

vars ==
  <<scenario, connected, commandCounter, responseBuffer, commandQueue,
    currentCommand, socket, sockState, wire, sentLines, received,
    pendingWrites, microtasks, uncaught, history, response, parsed>>

\* One entry of the history of a client.
Ev(ev, id, sock, data) == [ev |-> ev, id |-> id, sock |-> sock, data |-> data]

\* The state of client i as one record, the `this` of the methods below.
This(i) ==
  [connected |-> connected[i], commandCounter |-> commandCounter[i],
   responseBuffer |-> responseBuffer[i], commandQueue |-> commandQueue[i],
   currentCommand |-> currentCommand[i], socket |-> socket[i],
   sockState |-> sockState[i], pendingWrites |-> pendingWrites[i],
   microtasks |-> microtasks[i], uncaught |-> uncaught[i],
   history |-> history[i]]

\* Client i becomes n; the other clients are left alone.
Commit(i, n) ==
  /\ connected' = [connected EXCEPT ![i] = n.connected]
  /\ commandCounter' = [commandCounter EXCEPT ![i] = n.commandCounter]
  /\ responseBuffer' = [responseBuffer EXCEPT ![i] = n.responseBuffer]
  /\ commandQueue' = [commandQueue EXCEPT ![i] = n.commandQueue]
  /\ currentCommand' = [currentCommand EXCEPT ![i] = n.currentCommand]
  /\ socket' = [socket EXCEPT ![i] = n.socket]
  /\ sockState' = [sockState EXCEPT ![i] = n.sockState]
  /\ pendingWrites' = [pendingWrites EXCEPT ![i] = n.pendingWrites]
  /\ microtasks' = [microtasks EXCEPT ![i] = n.microtasks]
  /\ uncaught' = [uncaught EXCEPT ![i] = n.uncaught]
  /\ history' = [history EXCEPT ![i] = n.history]

(***************************************************************************)
(* The methods of IMAPClient, as functions of the client's state.          *)
(***************************************************************************)
HasCurrent(st) == st.currentCommand # <<>>
Cur(st) == st.currentCommand[1]

\* `A${n}`
TagOf(n) == <<"A">> \o Decimal(n)

\* A counter that all instances share
NextCounterShared(st) == SumOver(Clients, commandCounter) + 1

\* ++this.commandCounter
NextCounter(st) == st.commandCounter + 1

\* generateTag(): the client with the counter advanced, and the tag
GenerateTag(st) ==
  [st |-> [st EXCEPT !.commandCounter = NextCounter(st)],
   tag |-> TagOf(NextCounter(st))]

\* `${tag} ${command}\r\n`
FullCommand(tag, command) == tag \o <<SP>> \o command \o CRLF

\* Has resolve or reject of command id been called before?
AlreadySettled(st, id) ==
  \E k \in 1..Len(st.history) :
    /\ st.history[k].ev \in {"resolve", "reject"}
    /\ st.history[k].id = id

\* A promise reaction: the awaiting code of operation op ("none": the
\* caller of sendCommand) is to run with this settlement.
Task(op, id, kind, value) ==
  [op |-> op, id |-> id, kind |-> kind, value |-> value]

\* resolve(value) or reject(error) of a command's promise: the call is
\* recorded; the promise takes the first settlement only, and schedules
\* the reaction of whoever awaits it.
Settle(st, id, op, kind, value) ==
  [st EXCEPT
     !.history = Append(@, Ev(kind, id, st.socket, value)),
     !.microtasks = IF ~AlreadySettled(st, id)
                    THEN Append(@, Task(op, id, kind, value)) ELSE @]

\* _writeCommand(fullCommand): socket.write with a callback to come.  A
\* write to a socket that is no longer open fails for certain.
WriteCommand(st, fullCommand) ==
  [st EXCEPT
     !.history = Append(@, Ev("write", Cur(st).id, st.socket, fullCommand)),
     !.pendingWrites =
        Append(@, [sock |-> st.socket, canSucceed |-> st.sockState = "open"])]

\* A _processNextCommand that reads the head of the queue without removing
\* it.
ProcessNextCommandNoShift(st) ==
  LET idle == [st EXCEPT !.currentCommand = <<>>]
  IN IF Len(st.commandQueue) > 0
     THEN LET nextCommand == Head(st.commandQueue)
              taken == [idle EXCEPT !.currentCommand = <<nextCommand>>]
          IN WriteCommand(taken,
                          FullCommand(nextCommand.tag, nextCommand.command))
     ELSE idle

\* A _processNextCommand that makes the next command current and does not
\* write its line.
ProcessNextCommandSilent(st) ==
  LET idle == [st EXCEPT !.currentCommand = <<>>]
  IN IF Len(st.commandQueue) > 0
     THEN LET nextCommand == Head(st.commandQueue)
          IN [idle EXCEPT !.commandQueue = Tail(@),
                          !.currentCommand = <<nextCommand>>]
     ELSE idle

\* _processNextCommand()
ProcessNextCommand(st) ==
  LET idle == [st EXCEPT !.currentCommand = <<>>]
  IN IF Len(st.commandQueue) > 0
     THEN LET nextCommand == Head(st.commandQueue)
              taken == [idle EXCEPT !.commandQueue = Tail(@),
                                    !.currentCommand = <<nextCommand>>]
          IN WriteCommand(taken,
                          FullCommand(nextCommand.tag, nextCommand.command))
     ELSE idle

\* line.split(' ')[1]
StatusToken(line) ==
  LET parts == Split(line, <<SP>>)
  IN IF Len(parts) >= 2 THEN parts[2] ELSE Undefined

\* A response that is collected only for a command submitted with
\* expectMultiline.
ResponseBodyIfMultiline(cmd) ==
  IF cmd.expectMultiline THEN Join(cmd.response, NL) ELSE <<>>

\* this.currentCommand.response.join('\n')
ResponseBody(cmd) == Join(cmd.response, NL)

\* An error message without the line
CommandFailedMessageBare(line) == CommandFailedPrefix

\* `Command failed: ${line}`
CommandFailedMessage(line) == CommandFailedPrefix \o line

\* Is this line the tagged line of the command?
IsTaggedFor(line, cmd) == StartsWith(line, cmd.tag)

\* A processResponseLine without the else branch: a tagged line whose
\* status is not OK is taken for data.
ProcessResponseLineOkOnly(st, line) ==
  IF ~HasCurrent(st)
  THEN [st EXCEPT !.history = Append(@, Ev("line", 0, st.socket, line))]
  ELSE
    LET cmd == Cur(st)
        seen == [st EXCEPT
                   !.history = Append(@, Ev("line", cmd.id, st.socket, line))]
    IN IF IsTaggedFor(line, cmd) /\ StatusToken(line) = OK
       THEN ProcessNextCommand(
              Settle(seen, cmd.id, cmd.op, "resolve", ResponseBody(cmd)))
       ELSE [seen EXCEPT
               !.currentCommand = <<[cmd EXCEPT !.response = Append(@, line)]>>]

\* A processResponseLine that counts the lines it receives while no
\* command is current.
ProcessResponseLineCountsStray(st, line) ==
  IF ~HasCurrent(st)
  THEN [st EXCEPT !.history = Append(@, Ev("line", 0, st.socket, line)),
                  !.commandCounter = @ + 1]
  ELSE
    LET cmd == Cur(st)
        seen == [st EXCEPT
                   !.history = Append(@, Ev("line", cmd.id, st.socket, line))]
    IN IF ~IsTaggedFor(line, cmd)
       THEN [seen EXCEPT
               !.currentCommand = <<[cmd EXCEPT !.response = Append(@, line)]>>]
       ELSE IF StatusToken(line) = OK
            THEN ProcessNextCommand(
                   Settle(seen, cmd.id, cmd.op, "resolve", ResponseBody(cmd)))
            ELSE ProcessNextCommand(
                   Settle(seen, cmd.id, cmd.op, "reject",
                          CommandFailedMessage(line)))

\* processResponseLine(line).  Every line is recorded in the history with
\* the id of the command that was current (0 when none was).
ProcessResponseLine(st, line) ==
  IF ~HasCurrent(st)
  THEN [st EXCEPT !.history = Append(@, Ev("line", 0, st.socket, line))]
  ELSE
    LET cmd == Cur(st)
        seen == [st EXCEPT
                   !.history = Append(@, Ev("line", cmd.id, st.socket, line))]
    IN IF ~IsTaggedFor(line, cmd)
       THEN [seen EXCEPT
               !.currentCommand = <<[cmd EXCEPT !.response = Append(@, line)]>>]
       ELSE IF StatusToken(line) = OK
            THEN ProcessNextCommand(
                   Settle(seen, cmd.id, cmd.op, "resolve", ResponseBody(cmd)))
            ELSE ProcessNextCommand(
                   Settle(seen, cmd.id, cmd.op, "reject",
                          CommandFailedMessage(line)))

\* lines.forEach(line => this.processResponseLine(line))
RECURSIVE ProcessLines(_, _)
ProcessLines(st, lines) ==
  IF lines = <<>> THEN st
  ELSE ProcessLines(ProcessResponseLine(st, Head(lines)), Tail(lines))

\* responseBuffer.split('\r\n') without its last piece: the complete lines
CompleteLines(buffer) ==
  LET parts == Split(buffer, CRLF) IN SubSeq(parts, 1, Len(parts) - 1)

\* A framer that forgets the piece after the last CRLF
PartialTailForgotten(buffer) == <<>>

\* lines.pop() || '': the piece after the last CRLF
PartialTail(buffer) ==
  LET parts == Split(buffer, CRLF) IN parts[Len(parts)]

\* A handleRawResponse that splits the chunk alone and keeps the piece
\* after its last CRLF.
HandleRawResponseChunkOnly(st, data) ==
  ProcessLines([st EXCEPT !.responseBuffer = PartialTail(data)],
               CompleteLines(data))

\* handleRawResponse(data)
HandleRawResponse(st, data) ==
  LET buffer == st.responseBuffer \o data
  IN ProcessLines([st EXCEPT !.responseBuffer = PartialTail(buffer)],
                  CompleteLines(buffer))

\* The command object sendCommand builds.  id and op stand for its resolve
\* and reject closures: the promise they settle and the facade operation
\* that awaits it.
CommandObj(tag, command, expectMultiline, id, op) ==
  [tag |-> tag, command |-> command, expectMultiline |-> expectMultiline,
   response |-> <<>>, id |-> id, op |-> op]

\* A sendCommand that allocates the tag before it looks at this.connected.
SendCommandTagFirst(st, command, expectMultiline, op) ==
  LET g == GenerateTag(st)
      commandObj == CommandObj(g.tag, command, expectMultiline,
                               g.st.commandCounter, op)
  IN IF ~st.connected
     THEN [g.st EXCEPT
             !.microtasks =
                Append(@, Task(op, 0, "reject", NotConnectedMessage))]
     ELSE IF ~HasCurrent(g.st)
          THEN WriteCommand([g.st EXCEPT !.currentCommand = <<commandObj>>],
                            FullCommand(g.tag, command))
          ELSE [g.st EXCEPT !.commandQueue = Append(@, commandObj)]

\* A sendCommand that writes at once instead of queueing behind the current
\* command.
SendCommandNoQueue(st, command, expectMultiline, op) ==
  IF ~st.connected
  THEN [st EXCEPT
          !.microtasks = Append(@, Task(op, 0, "reject", NotConnectedMessage))]
  ELSE
    LET g == GenerateTag(st)
        commandObj == CommandObj(g.tag, command, expectMultiline,
                                 g.st.commandCounter, op)
    IN WriteCommand([g.st EXCEPT !.currentCommand = <<commandObj>>],
                    FullCommand(g.tag, command))

\* sendCommand(command, expectMultiline), called by the facade operation op
\* ("none" for a direct call).  A promise rejected before a command object
\* exists has id 0.
SendCommand(st, command, expectMultiline, op) ==
  IF ~st.connected
  THEN [st EXCEPT
          !.microtasks = Append(@, Task(op, 0, "reject", NotConnectedMessage))]
  ELSE
    LET g == GenerateTag(st)
        commandObj == CommandObj(g.tag, command, expectMultiline,
                                 g.st.commandCounter, op)
    IN IF ~HasCurrent(g.st)
       THEN WriteCommand([g.st EXCEPT !.currentCommand = <<commandObj>>],
                         FullCommand(g.tag, command))
       ELSE [g.st EXCEPT !.commandQueue = Append(@, commandObj)]

\* A write callback that rejects the current command and stops there.
WriteCallbackNoAdvance(st, err) ==
  LET popped == [st EXCEPT !.pendingWrites = Tail(@)]
  IN IF ~err THEN popped
     ELSE IF ~HasCurrent(popped)
          THEN [popped EXCEPT !.uncaught = TRUE]
          ELSE Settle(popped, Cur(popped).id, Cur(popped).op, "reject",
                      WriteErrorMessage)

\* The callback of socket.write, called with an error or without one.
\* this.currentCommand.reject(err) throws a TypeError when no command is
\* current, before _processNextCommand() is reached.
WriteCallback(st, err) ==
  LET popped == [st EXCEPT !.pendingWrites = Tail(@)]
  IN IF ~err THEN popped
     ELSE IF ~HasCurrent(popped)
          THEN [popped EXCEPT !.uncaught = TRUE]
          ELSE ProcessNextCommand(
                 Settle(popped, Cur(popped).id, Cur(popped).op, "reject",
                        WriteErrorMessage))

\* close() throws the error its LOGOUT was rejected with.  The history is
\* that of the commands: a close() rejected before a command existed
\* (id 0) throws as well and leaves no trace in it.
Thrown(st, task) ==
  IF task.id = 0 THEN st
  ELSE [st EXCEPT
          !.history = Append(@, Ev("throw", task.id, st.socket, task.value))]

\* A close() that releases the socket in a finally block, whatever became
\* of LOGOUT.
CloseContinuationFinally(st, task) ==
  LET released ==
        [st EXCEPT
           !.sockState = IF @ = "open" THEN "ended" ELSE @,
           !.connected = FALSE,
           !.history = Append(@, Ev("end", task.id, st.socket, task.value))]
  IN IF task.kind = "resolve" THEN released ELSE Thrown(released, task)

\* The rest of close() once the promise of its LOGOUT is settled:
\* socket.end() and connected = false after a resolve; after a reject the
\* catch block logs and rethrows the error, and the client is left as it
\* is.
CloseContinuation(st, task) ==
  IF task.kind = "resolve"
  THEN [st EXCEPT
          !.sockState = IF @ = "open" THEN "ended" ELSE @,
          !.connected = FALSE,
          !.history = Append(@, Ev("end", task.id, st.socket, task.value))]
  ELSE Thrown(st, task)

\* What the promise returned by close() is settled with: the response
\* after a resolve (return response), the same error after a reject
\* (throw error).
CloseResult(task) == [kind |-> task.kind, value |-> task.value]

\* The oldest pending promise reaction runs: the rest of close(), or code
\* of the caller, which is not the client's.
RunReaction(st) ==
  LET task == Head(st.microtasks)
      popped == [st EXCEPT !.microtasks = Tail(@)]
  IN IF task.op = "close" THEN CloseContinuation(popped, task) ELSE popped

\* The callback of tls.connect / net.createConnection: a new socket, open.
ConnectCallback(st) ==
  [st EXCEPT !.socket = @ + 1, !.sockState = "open", !.connected = TRUE]

\* The 'close' handler of the socket
OnSocketClose(st) ==
  [st EXCEPT !.connected = FALSE, !.sockState = "closed"]

(***************************************************************************)
(* The server and the runtime.                                             *)
(***************************************************************************)
\* The lines a server may send to client i: untagged lines, and for each
\* tag the client has allocated a tagged line with status OK and one with
\* status NO.  The server need not have been sent the command it answers.
UntaggedLine == <<"*", SP, "a">>
OtherLine == <<"*", SP, "b">>
NO == <<"N", "O">>
TaggedLine(n, status) == TagOf(n) \o <<SP>> \o status
ServerLines(i) ==
  scenario.data
    \cup {TaggedLine(n, OK) : n \in 1..commandCounter[i]}
    \cup {TaggedLine(n, NO) : n \in 1..commandCounter[i]}

LinesSentCount == [i \in Clients |-> Len(sentLines[i])]

\* Callbacks of the event loop run only when no promise reaction is pending.
NoMicrotasks == \A j \in Clients : microtasks[j] = <<>>

\* A call may be made unless it would allocate a tag beyond the budget, or
\* add a rejection to too many pending reactions.
MayCall(i) ==
  /\ i \in scenario.clients
  /\ IF connected[i]
     THEN SumOver(Clients, commandCounter) < scenario.cmds
     ELSE Len(microtasks[i]) < MaxPending

EnvUnchanged == UNCHANGED <<scenario, response, parsed, wire, sentLines, received>>

\* No client has been constructed and no parser called.
Constructed(sc) ==
  /\ scenario = sc
  /\ connected = [i \in Clients |-> FALSE]
  /\ commandCounter = [i \in Clients |-> 0]
  /\ responseBuffer = [i \in Clients |-> <<>>]
  /\ commandQueue = [i \in Clients |-> <<>>]
  /\ currentCommand = [i \in Clients |-> <<>>]
  /\ socket = [i \in Clients |-> 0]
  /\ sockState = [i \in Clients |-> "none"]
  /\ wire = [i \in Clients |-> <<>>]
  /\ sentLines = [i \in Clients |-> <<>>]
  /\ received = [i \in Clients |-> <<>>]
  /\ pendingWrites = [i \in Clients |-> <<>>]
  /\ microtasks = [i \in Clients |-> <<>>]
  /\ uncaught = [i \in Clients |-> FALSE]
  /\ history = [i \in Clients |-> <<>>]

Init(sc) ==
  /\ Constructed(sc)
  /\ response = <<>>
  /\ parsed = <<>>

\* connect() succeeds.  A client is connected once.
Connect(i) ==
  /\ i \in scenario.clients
  /\ NoMicrotasks
  /\ sockState[i] = "none"
  /\ Commit(i, ConnectCallback(This(i)))
  /\ wire' = [wire EXCEPT ![i] = <<>>]
  /\ UNCHANGED <<scenario, response, parsed, sentLines, received>>

\* A caller calls sendCommand directly.
CallSendCommand(i) ==
  /\ MayCall(i)
  /\ \E expectMultiline \in scenario.flags :
       Commit(i, SendCommand(This(i), NoopCommand, expectMultiline, "none"))
  /\ EnvUnchanged

\* A caller calls close(): sendCommand('LOGOUT'), awaited.
CallClose(i) ==
  /\ MayCall(i)
  /\ Commit(i, SendCommand(This(i), LogoutCommand, FALSE, "close"))
  /\ EnvUnchanged

\* A pending promise reaction runs.
Reaction(i) ==
  /\ microtasks[i] # <<>>
  /\ Commit(i, RunReaction(This(i)))
  /\ EnvUnchanged

\* The server sends a line.
ServerSend(i) ==
  /\ sockState[i] \in {"open", "ended"}
  /\ SumOver(Clients, LinesSentCount) < scenario.lines
  /\ \E line \in ServerLines(i) :
       /\ Len(wire[i]) + Len(line) + 2 <= MaxWire
       /\ wire' = [wire EXCEPT ![i] = @ \o line \o CRLF]
       /\ sentLines' = [sentLines EXCEPT ![i] = Append(@, line)]
  /\ UNCHANGED <<scenario, response, parsed, connected, commandCounter, responseBuffer,
                 commandQueue, currentCommand, socket, sockState, received,
                 pendingWrites, microtasks, uncaught, history>>

\* The lines client i wrote that reach the server: those written before the
\* socket was ended.
RECURSIVE WrittenBeforeEnd(_)
WrittenBeforeEnd(events) ==
  IF events = <<>> \/ Head(events).ev = "end" THEN <<>>
  ELSE IF Head(events).ev = "write"
       THEN <<Head(events).data>> \o WrittenBeforeEnd(Tail(events))
       ELSE WrittenBeforeEnd(Tail(events))

\* The tagged lines among those the server has sent to client i
RepliesSent(i) ==
  {k \in 1..Len(sentLines[i]) : Head(sentLines[i][k]) = "A"}

\* A server that answers: it sends the reply to the oldest line it has not
\* answered, a line of that line's tag and a status, after an untagged line
\* or without one.
ServerReply(i) ==
  /\ sockState[i] \in {"open", "ended"}
  /\ LET arrived == WrittenBeforeEnd(history[i])
         answered == Cardinality(RepliesSent(i))
     IN /\ answered < Len(arrived)
        /\ \E status \in {OK, NO} : \E data \in SUBSET scenario.data :
             LET tag == Split(arrived[answered + 1], <<SP>>)[1]
                 reply == tag \o <<SP>> \o status
                 lines == IF data = {} THEN <<reply>>
                          ELSE <<CHOOSE line \in data : TRUE, reply>>
             IN /\ Cardinality(data) <= 1
                /\ Len(wire[i]) + Len(Join(lines, CRLF)) + 2 <= MaxWire
                /\ wire' = [wire EXCEPT ![i] = @ \o Join(lines, CRLF) \o CRLF]
                /\ sentLines' = [sentLines EXCEPT ![i] = @ \o lines]
  /\ UNCHANGED <<scenario, response, parsed, connected, commandCounter, responseBuffer,
                 commandQueue, currentCommand, socket, sockState, received,
                 pendingWrites, microtasks, uncaught, history>>

\* Where the transport may cut the stream w into chunks: after a CR and
\* after an LF, so that a chunk holds any number of lines and may end
\* inside a CRLF.  (FramerSpec cuts anywhere.)
ChunkCuts(w) == {n \in 1..Len(w) : w[n] \in {"\r", "\n"}}

\* The socket's 'data' event: the next n characters arrive as one chunk.
DataArrives(i, n) ==
  LET data == SubSeq(wire[i], 1, n)
  IN /\ NoMicrotasks
     /\ sockState[i] \in {"open", "ended"}
     /\ Commit(i, HandleRawResponse(This(i), data))
     /\ wire' = [wire EXCEPT ![i] = SubSeq(@, n + 1, Len(@))]
     /\ received' = [received EXCEPT ![i] = @ \o data]
     /\ UNCHANGED <<scenario, response, parsed, sentLines>>

DataEvent(i) == \E n \in ChunkCuts(wire[i]) : DataArrives(i, n)

\* The same with a chunk that ends anywhere
DataEventAny(i) == \E n \in 1..Len(wire[i]) : DataArrives(i, n)

\* The server sends one character, any of a letter, CR and LF.
ServerSendByte(i) ==
  /\ sockState[i] \in {"open", "ended"}
  /\ Len(received[i]) + Len(wire[i]) < FramerBytes
  /\ \E c \in {"a", "\r", "\n"} : wire' = [wire EXCEPT ![i] = Append(@, c)]
  /\ UNCHANGED <<scenario, response, parsed, connected, commandCounter, responseBuffer,
                 commandQueue, currentCommand, socket, sockState, sentLines,
                 received, pendingWrites, microtasks, uncaught, history>>

\* The callbacks of the k oldest pending writes have reported success.
RECURSIVE WritesDone(_, _)
WritesDone(st, k) ==
  IF k = 0 THEN st ELSE WritesDone(WriteCallback(st, FALSE), k - 1)

\* The runtime destroys a socket whose write failed, before it calls the
\* callback of the write: no data is read from it any more, and 'close'
\* is emitted later.
Destroyed(st) ==
  [st EXCEPT !.sockState = IF @ \in {"open", "ended"} THEN "destroyed" ELSE @]

\* A pending socket.write reports an error.  Callbacks are called in the
\* order of the writes, and a callback without an error does nothing, so
\* the successes before the failing write are taken together with it.
WriteFailed(i) ==
  /\ NoMicrotasks
  /\ \E k \in 1..Len(pendingWrites[i]) :
       /\ \A j \in 1..(k - 1) : pendingWrites[i][j].canSucceed
       /\ Commit(i, WriteCallback(Destroyed(WritesDone(This(i), k - 1)), TRUE))
  /\ wire' = [wire EXCEPT ![i] = <<>>]
  /\ UNCHANGED <<scenario, response, parsed, sentLines, received>>

\* The connection closes; what was in flight is lost.
SocketClose(i) ==
  /\ NoMicrotasks
  /\ sockState[i] \in {"open", "ended", "destroyed"}
  /\ Commit(i, OnSocketClose(This(i)))
  /\ wire' = [wire EXCEPT ![i] = <<>>]
  /\ UNCHANGED <<scenario, response, parsed, sentLines, received>>

Next ==
  \E i \in Clients :
    \/ Connect(i)
    \/ CallSendCommand(i)
    \/ CallClose(i)
    \/ Reaction(i)
    \/ ServerSend(i)
    \/ DataEvent(i)
    \/ WriteFailed(i)
    \/ SocketClose(i)

\* What a program does with the class: the instances it uses, how many
\* commands it submits, the expectMultiline arguments it passes; and what
\* its server does: how many lines it sends, and which untagged ones.
Scenario(clients, cmds, lines, flags, data) ==
  [clients |-> clients, cmds |-> cmds, lines |-> lines, flags |-> flags,
   data |-> data]

\* A program with one client
Spec ==
  /\ Init(Scenario({"c1"}, MaxCmds, MaxServerLines, {TRUE}, {UntaggedLine}))
  /\ [][Next]_vars

\* One client, enough commands to queue two behind the current one
QueueSpec ==
  /\ Init(Scenario({"c1"}, QueueCmds, QueueLines, {TRUE}, {UntaggedLine}))
  /\ [][Next]_vars

\* One client and one submission, with either expectMultiline argument; the
\* server has two different untagged lines to send.
BodySpec ==
  /\ Init(Scenario({"c1"}, BodyCmds, BodyLines, BOOLEAN,
                   {UntaggedLine, OtherLine}))
  /\ [][Next]_vars

\* A program with two clients
TwoSpec ==
  /\ Init(Scenario(Clients, TwoCmds, TwoLines, {TRUE}, {UntaggedLine}))
  /\ [][Next]_vars

\* One connected client and a server that sends any characters, cut into
\* chunks anywhere
FramerNext ==
  \E i \in Clients :
    \/ Connect(i)
    \/ ServerSendByte(i)
    \/ DataEventAny(i)

FramerSpec ==
  /\ Init(Scenario({"c1"}, 0, 0, {TRUE}, {UntaggedLine}))
  /\ [][FramerNext]_vars

\* A write to a socket that was not open reports its error.
DoomedWriteFails(i) ==
  /\ \E k \in 1..Len(pendingWrites[i]) : ~pendingWrites[i][k].canSucceed
  /\ WriteFailed(i)

\* A 'data' event is due: ENABLED DataEvent(i), written out.
DataDue(i) ==
  /\ NoMicrotasks
  /\ sockState[i] \in {"open", "ended"}
  /\ ChunkCuts(wire[i]) # {}

\* SF_vars(DataEvent(i)), with DataDue(i) for ENABLED <<DataEvent(i)>>_vars
DataEventFair(i) == []<><<DataEvent(i)>>_vars \/ <>[]~DataDue(i)

\* The callers do not starve the event loop: again and again no promise
\* reaction is pending.
EventLoopTurns == []<>NoMicrotasks

\* One client and a server that answers every line that reaches it.  The
\* promise reactions that are pending run, and the server sends the replies
\* it owes (weak fairness).  The event loop calls the callbacks that are
\* due, 'data' and the error of a write, when no reaction is pending,
\* however often callers make reactions pending in between (strong
\* fairness), and it gets its turn.  Other writes may fail and the
\* connection may close at any time.
LiveNext ==
  \E i \in Clients :
    \/ Connect(i)
    \/ CallSendCommand(i)
    \/ CallClose(i)
    \/ Reaction(i)
    \/ ServerReply(i)
    \/ DataEvent(i)
    \/ WriteFailed(i)
    \/ SocketClose(i)

LiveSpec ==
  /\ Init(Scenario({"c1"}, LiveCmds, 0, {TRUE}, {UntaggedLine}))
  /\ [][LiveNext]_vars
  /\ WF_vars(Reaction("c1"))
  /\ WF_vars(ServerReply("c1"))
  /\ DataEventFair("c1")
  /\ EventLoopTurns
  /\ SF_vars(DoomedWriteFails("c1"))

(***************************************************************************)
(* Vocabulary of the properties.                                           *)
(***************************************************************************)
IsSettlement(e) == e.ev \in {"resolve", "reject"}

\* The places in client i's history where command c was resolved or rejected
SettlementsOf(i, c) ==
  {k \in 1..Len(history[i]) : IsSettlement(history[i][k]) /\ history[i][k].id = c}

\* The places in client i's history where a line of command c was written
WritesOf(i, c) ==
  {k \in 1..Len(history[i]) :
     history[i][k].ev = "write" /\ history[i][k].id = c}

\* The commands client i has accepted, numbered in submission order
Accepted(i) == 1..commandCounter[i]

\* The tag the k-th command is expected to carry, written out: A1, A2, ...
ExpectedDigits ==
  <<<<"1">>, <<"2">>, <<"3">>, <<"4">>, <<"5">>, <<"6">>, <<"7">>, <<"8">>,
    <<"9">>, <<"1", "0">>, <<"1", "1">>, <<"1", "2">>>>
ExpectedTag(k) == <<"A">> \o ExpectedDigits[k]

(***************************************************************************)
(* C1.  FIFO pipeline: of two commands accepted on one client, the line of *)
(* the later one is never written to the transport before the earlier one  *)
(* has been resolved or rejected, and the later one is never resolved or   *)
(* rejected before the earlier one, whatever the order of submissions,     *)
(* inbound lines and write callbacks.                                      *)
(***************************************************************************)
C1_FifoPipeline ==
  \A i \in Clients :
    \A k \in 1..Len(history[i]) :
      LET e == history[i][k]
      IN /\ e.ev = "write" => StartsWith(e.data, ExpectedTag(e.id) \o <<SP>>)
         /\ (e.ev = "write" \/ IsSettlement(e)) =>
              \A c1 \in 1..(e.id - 1) :
                \E j \in 1..(k - 1) :
                  IsSettlement(history[i][j]) /\ history[i][j].id = c1

\* The server answered the second command while the first was current and
\* the second queued; the first was then completed, the second written and
\* completed in its turn.
C1_Witness ==
  \E i \in Clients :
    \E l, s1, w2, s2 \in 1..Len(history[i]) :
      /\ l < s1 /\ s1 < w2 /\ w2 < s2
      /\ history[i][l] = Ev("line", 1, 1, TaggedLine(2, OK))
      /\ s1 \in SettlementsOf(i, 1)
      /\ w2 \in WritesOf(i, 2)
      /\ s2 \in SettlementsOf(i, 2)

(***************************************************************************)
(* C2.  Exactly-once completion.  Every command sendCommand accepts while  *)
(* connected is eventually resolved or rejected when the server sends a    *)
(* line tagged with its tag for every command written and the lines are    *)
(* delivered, that is unless the connection is lost first; and in every    *)
(* execution no command is resolved or rejected more than once.            *)
(***************************************************************************)
ConnectionLost(i) == sockState[i] \in {"destroyed", "closed"}

C2_ExactlyOnce ==
  /\ \A c \in 1..LiveCmds :
       (c \in Accepted("c1")) ~>
         (SettlementsOf("c1", c) # {} \/ ConnectionLost("c1"))
  /\ [](\A i \in Clients : \A c \in Accepted(i) :
          Cardinality(SettlementsOf(i, c)) <= 1)

\* Both commands were accepted and settled, the second one rejected by the
\* server's NO, on a connection that is still open.
C2_Witness ==
  /\ sockState["c1"] = "open"
  /\ Accepted("c1") = {1, 2}
  /\ \E k \in SettlementsOf("c1", 1) : history["c1"][k].ev = "resolve"
  /\ \E k \in SettlementsOf("c1", 2) : history["c1"][k].ev = "reject"

(***************************************************************************)
(* C3.  Single in-flight command: in every reachable state at most one     *)
(* command is current, at most one command whose line has been written is  *)
(* still uncompleted (the current one), and every other accepted,          *)
(* uncompleted command is in the queue, in submission order.               *)
(***************************************************************************)
Uncompleted(i) == {c \in Accepted(i) : SettlementsOf(i, c) = {}}
InFlight(i) == {c \in Uncompleted(i) : WritesOf(i, c) # {}}
QueuedIds(i) == {commandQueue[i][k].id : k \in 1..Len(commandQueue[i])}
CurrentIds(i) == {currentCommand[i][k].id : k \in 1..Len(currentCommand[i])}

C3_SingleInFlight ==
  \A i \in Clients :
    /\ Len(currentCommand[i]) <= 1
    /\ Cardinality(InFlight(i)) <= 1
    /\ InFlight(i) = CurrentIds(i)
    /\ QueuedIds(i) = Uncompleted(i) \ InFlight(i)
    /\ \A k, l \in 1..Len(commandQueue[i]) :
         k < l => commandQueue[i][k].id < commandQueue[i][l].id
    /\ \A k \in 1..Len(commandQueue[i]) :
         commandQueue[i][k].tag = ExpectedTag(commandQueue[i][k].id)
    /\ \A k \in 1..Len(currentCommand[i]) :
         currentCommand[i][k].tag = ExpectedTag(currentCommand[i][k].id)

\* The first command has completed, the second is current and written, and
\* the third waits in the queue.
C3_Witness ==
  \E i \in Clients :
    /\ SettlementsOf(i, 1) # {}
    /\ CurrentIds(i) = {2}
    /\ WritesOf(i, 2) # {}
    /\ QueuedIds(i) = {3}

(***************************************************************************)
(* C4.  A submission made while connected is false, directly or through    *)
(* the facade operation close(), is rejected at once with the error 'Not   *)
(* connected to IMAP server' and leaves the tag counter, the current       *)
(* command, the queue and the transport as they were: no tag is allocated, *)
(* nothing is enqueued and nothing is written.                             *)
(***************************************************************************)
RejectedAtOnce(i, op) ==
  /\ microtasks'[i] =
       Append(microtasks[i], Task(op, 0, "reject", NotConnectedMessage))
  /\ UNCHANGED <<commandCounter, currentCommand, commandQueue, history,
                 pendingWrites, connected, socket, sockState, responseBuffer,
                 wire>>

C4_NotConnected ==
  [][\A i \in Clients :
       /\ (CallSendCommand(i) /\ ~connected[i]) => RejectedAtOnce(i, "none")
       /\ (CallClose(i) /\ ~connected[i]) => RejectedAtOnce(i, "close")]_vars

\* close() was rejected for want of a connection on a client that had been
\* connected and still holds a current command.
C4_Witness ==
  \E i \in Clients :
    /\ ~connected[i]
    /\ commandCounter[i] > 0
    /\ currentCommand[i] # <<>>
    /\ microtasks[i] = <<Task("close", 0, "reject", NotConnectedMessage)>>

(***************************************************************************)
(* What a step that fails the current command with the error message is    *)
(* to do to client i: one reject, of the current command and with that     *)
(* message, is called and reaches its awaiter; the queue loses its head    *)
(* and nothing else; the head, if there was one, is the current command    *)
(* and its line is the next thing written; no command is current if there  *)
(* was none.  seen are the events the step records before the reject.      *)
(***************************************************************************)
FailsCurrentAndAdvances(i, seen, message) ==
  LET cmd == currentCommand[i][1]
      queue == commandQueue[i]
      written ==
        IF queue = <<>> THEN <<>>
        ELSE <<Ev("write", queue[1].id, socket[i],
                  queue[1].tag \o <<SP>> \o queue[1].command \o CRLF)>>
  IN /\ history'[i] =
          history[i] \o seen \o <<Ev("reject", cmd.id, socket[i], message)>>
            \o written
     /\ microtasks'[i] =
          Append(microtasks[i], Task(cmd.op, cmd.id, "reject", message))
     /\ commandQueue'[i] = IF queue = <<>> THEN <<>> ELSE Tail(queue)
     /\ currentCommand'[i] = IF queue = <<>> THEN <<>> ELSE <<queue[1]>>
     /\ commandCounter'[i] = commandCounter[i]

\* The characters client i receives in this step
ChunkReceived(i) ==
  SubSeq(received'[i], Len(received[i]) + 1, Len(received'[i]))

(***************************************************************************)
(* C5.  When the line tagged for the current command carries a status      *)
(* token other than OK, exactly that command is rejected, with the message *)
(* 'Command failed: ' followed by the full tagged line; no queued command  *)
(* is rejected or removed, and the head of the queue, if any, becomes      *)
(* current and is written next.  Stated of every step in which the        *)
(* arriving chunk completes exactly that line.                             *)
(***************************************************************************)
C5_CommandFailed ==
  [][\A i \in Clients :
       \A line \in {TaggedLine(n, NO) : n \in 1..commandCounter[i]} :
         ( /\ received'[i] # received[i]
           /\ responseBuffer[i] \o ChunkReceived(i) = line \o CRLF
           /\ currentCommand[i] # <<>>
           /\ line = ExpectedTag(currentCommand[i][1].id) \o <<SP>> \o NO )
         => FailsCurrentAndAdvances(
              i, <<Ev("line", currentCommand[i][1].id, socket[i], line)>>,
              <<"C", "o", "m", "m", "a", "n", "d", " ", "f", "a", "i", "l",
                "e", "d", ":", " ">> \o line)]_vars

\* Command 1 was failed by its NO line while command 2 and command 3 were
\* queued: 2 is current and written, 3 is still queued.
C5_Witness ==
  \E i \in Clients : \E k \in 1..Len(history[i]) :
    /\ k + 2 = Len(history[i])
    /\ history[i][k] = Ev("line", 1, 1, TaggedLine(1, NO))
    /\ history[i][k + 1].ev = "reject" /\ history[i][k + 1].id = 1
    /\ history[i][k + 2].ev = "write" /\ history[i][k + 2].id = 2
    /\ CurrentIds(i) = {2}
    /\ QueuedIds(i) = {3}

(***************************************************************************)
(* C6.  When the transport reports a write failure, only the command that  *)
(* is current is rejected, with the transport's error; no queued command   *)
(* is rejected or dropped, and the pipeline advances: the head of the      *)
(* queue becomes current and is written, or no command is current if the   *)
(* queue is empty.  When no command is current nothing is rejected.        *)
(***************************************************************************)
C6_WriteFailure ==
  [][\A i \in Clients :
       WriteFailed(i) =>
         IF currentCommand[i] # <<>>
         THEN FailsCurrentAndAdvances(i, <<>>, <<"E", "P", "I", "P", "E">>)
         ELSE /\ UNCHANGED <<history, microtasks, commandQueue,
                             currentCommand, commandCounter>>
              /\ commandQueue[i] = <<>>]_vars

\* The write of command 1 failed while command 2 and command 3 were queued:
\* 1 is rejected, 2 is current and written, 3 is still queued.
C6_Witness ==
  \E i \in Clients :
    /\ Len(history[i]) = 3
    /\ history[i][1].ev = "write" /\ history[i][1].id = 1
    /\ history[i][2] = Ev("reject", 1, 1, WriteErrorMessage)
    /\ history[i][3].ev = "write" /\ history[i][3].id = 2
    /\ CurrentIds(i) = {2}
    /\ QueuedIds(i) = {3}
    /\ SettlementsOf(i, 2) = {} /\ SettlementsOf(i, 3) = {}

(***************************************************************************)
(* C7.  When a command is resolved by its OK-tagged line, the value        *)
(* delivered is exactly the lines that arrived while the command was       *)
(* current (after its line was written, before the resolve) and did not    *)
(* begin with its tag, in arrival order, joined by newline, whatever the   *)
(* expectMultiline argument was; the tagged line and lines that arrived    *)
(* while another command or no command was current are not part of it.     *)
(***************************************************************************)
RECURSIVE NewlineJoined(_)
NewlineJoined(lines) ==
  IF lines = <<>> THEN <<>>
  ELSE IF Len(lines) = 1 THEN lines[1]
  ELSE lines[1] \o <<"\n">> \o NewlineJoined(Tail(lines))

\* The lines client i was delivered between places w and k of its history
\* that do not begin with tag
RECURSIVE LinesBetween(_, _, _, _)
LinesBetween(i, w, k, tag) ==
  IF w + 1 >= k THEN <<>>
  ELSE LET e == history[i][w + 1]
           rest == LinesBetween(i, w + 1, k, tag)
       IN IF e.ev = "line" /\ ~StartsWith(e.data, tag)
          THEN <<e.data>> \o rest ELSE rest

WrittenLines(i) ==
  LET IsWrite(e) == e.ev = "write"
      Writes == SelectSeq(history[i], IsWrite)
  IN [k \in 1..Len(Writes) |-> Writes[k].data]

C8_TagAllocation ==
  \A i \in Clients :
    LET written == WrittenLines(i)
    IN /\ \A k \in 1..Len(written) :
            StartsWith(written[k], ExpectedTag(k) \o <<SP>>)
       /\ \A q \in 1..Len(commandQueue[i]) :
            commandQueue[i][q].tag = ExpectedTag(Len(written) + q)

\* Both clients have accepted commands: c1 has written A1 and queued A2,
\* c2 has written its own A1.
C8_Witness ==
  /\ Len(WrittenLines("c1")) = 1
  /\ Len(commandQueue["c1"]) = 1
  /\ commandQueue["c1"][1].tag = <<"A", "2">>
  /\ Len(WrittenLines("c2")) = 1
  /\ StartsWith(WrittenLines("c2")[1], <<"A", "1", " ">>)

(***************************************************************************)
(* C9.  Line framer.  On each chunk handleRawResponse appends the chunk to *)
(* the buffered tail, delivers every CRLF-terminated line to the pipeline  *)
(* in arrival order and keeps the trailing partial line as the new tail,   *)
(* so that the delivered lines, each followed by CRLF, and then the tail   *)
(* are always the concatenation of all chunks received.  When the tail     *)
(* followed by the chunk holds no CRLF, zero lines are delivered and the   *)
(* tail grows by the chunk.                                                *)
(***************************************************************************)
HasCRLF(s) == \E k \in 1..(Len(s) - 1) : s[k] = "\r" /\ s[k + 1] = "\n"

\* The lines of the line events of a history, in order
LinesOf(events) ==
  LET IsLine(e) == e.ev = "line"
      Lines == SelectSeq(events, IsLine)
  IN [k \in 1..Len(Lines) |-> Lines[k].data]

\* Every line followed by CRLF, one after the other
RECURSIVE Terminated(_)
Terminated(lines) ==
  IF lines = <<>> THEN <<>>
  ELSE Head(lines) \o <<"\r", "\n">> \o Terminated(Tail(lines))

\* The lines client i is delivered in this step
LinesDelivered(i) ==
  LinesOf(SubSeq(history'[i], Len(history[i]) + 1, Len(history'[i])))

FramerDelivers(i) ==
  LET delivered == LinesDelivered(i)
  IN /\ Terminated(delivered) \o responseBuffer'[i] =
          responseBuffer[i] \o ChunkReceived(i)
     /\ \A k \in 1..Len(delivered) : ~HasCRLF(delivered[k])
     /\ ~HasCRLF(responseBuffer'[i])
     /\ Terminated(LinesOf(history'[i])) \o responseBuffer'[i] = received'[i]

C9_Framer ==
  [][\A i \in Clients :
       received'[i] # received[i] =>
         /\ FramerDelivers(i)
         /\ ~HasCRLF(responseBuffer[i] \o ChunkReceived(i)) =>
              /\ LinesDelivered(i) = <<>>
              /\ responseBuffer'[i] = responseBuffer[i] \o ChunkReceived(i)]_vars

\* The line "a" arrived in three chunks, the CR and the LF apart, and the
\* next line has begun.
C9_Witness ==
  \E i \in Clients :
    /\ LinesOf(history[i]) = <<<<"a">>>>
    /\ responseBuffer[i] = <<"a">>
    /\ received[i] = <<"a", "\r", "\n", "a">>
    /\ wire[i] = <<"\r", "\n">>

\* C9 as stated: a chunk that holds no CRLF delivers zero lines and only
\* grows the tail.
C9_FramerAsStated ==
  [][\A i \in Clients :
       received'[i] # received[i] =>
         /\ FramerDelivers(i)
         /\ ~HasCRLF(ChunkReceived(i)) =>
              /\ LinesDelivered(i) = <<>>
              /\ responseBuffer'[i] = responseBuffer[i] \o ChunkReceived(i)]_vars

(***************************************************************************)
(* C10.  close() submits LOGOUT through the pipeline, behind any earlier   *)
(* command, and releases the transport (socket.end()) only after LOGOUT    *)
(* has been resolved by its OK-tagged line; once close() has succeeded     *)
(* connected is false, it becomes true again only by connect(), and until  *)
(* then every submission is rejected with 'Not connected to IMAP server';  *)
(* if LOGOUT is rejected the transport is not released and close() throws  *)
(* the same error.                                                         *)
(***************************************************************************)
LogoutLine(n) ==
  ExpectedTag(n) \o <<" ", "L", "O", "G", "O", "U", "T", "\r", "\n">>

\* close() called while connected: LOGOUT is the last of the queue when a
\* command is current, and is current and written when none is.
SubmitsLogout(i) ==
  LET n == commandCounter[i] + 1
  IN /\ commandCounter'[i] = n
     /\ IF currentCommand[i] # <<>>
        THEN /\ Len(commandQueue'[i]) = Len(commandQueue[i]) + 1
             /\ SubSeq(commandQueue'[i], 1, Len(commandQueue[i])) =
                  commandQueue[i]
             /\ commandQueue'[i][Len(commandQueue'[i])].id = n
             /\ commandQueue'[i][Len(commandQueue'[i])].op = "close"
             /\ FullCommand(commandQueue'[i][Len(commandQueue'[i])].tag,
                            commandQueue'[i][Len(commandQueue'[i])].command) =
                  LogoutLine(n)
             /\ UNCHANGED <<currentCommand, history>>
        ELSE /\ CurrentIds(i)' = {n}
             /\ history'[i] =
                  Append(history[i], Ev("write", n, socket[i], LogoutLine(n)))
             /\ UNCHANGED commandQueue

\* The command was resolved by its OK-tagged line, and it was a LOGOUT.
LogoutResolved(i, c) ==
  \E k \in 2..Len(history[i]) : \E w \in 1..(k - 2) :
    /\ history[i][w] = Ev("write", c, history[i][w].sock, LogoutLine(c))
    /\ history[i][k - 1].ev = "line"
    /\ history[i][k - 1].data = ExpectedTag(c) \o <<" ", "O", "K">>
    /\ history[i][k].ev = "resolve"
    /\ history[i][k].id = c

EndsOf(i) == {k \in 1..Len(history[i]) : history[i][k].ev = "end"}

C10_Close ==
  [][\A i \in Clients :
       /\ (CallClose(i) /\ connected[i]) => SubmitsLogout(i)
       /\ (Reaction(i) /\ Head(microtasks[i]).op = "close") =>
            LET task == Head(microtasks[i])
            IN IF task.kind = "resolve"
               THEN /\ LogoutResolved(i, task.id)
                    /\ ~connected'[i]
                    /\ sockState'[i] # "open"
                    /\ history'[i] =
                         Append(history[i],
                                Ev("end", task.id, socket[i], task.value))
               ELSE /\ UNCHANGED <<connected, socket, sockState,
                                   currentCommand, commandQueue>>
                    /\ history'[i] =
                         IF task.id = 0 THEN history[i]
                         ELSE Append(history[i],
                                     Ev("throw", task.id, socket[i],
                                        task.value))
       /\ EndsOf(i)' # EndsOf(i) =>
            /\ Reaction(i)
            /\ Head(microtasks[i]).op = "close"
            /\ Head(microtasks[i]).kind = "resolve"
       /\ (sockState[i] = "open" /\ sockState'[i] = "ended") =>
            EndsOf(i)' # EndsOf(i)
       /\ (connected'[i] /\ ~connected[i]) => Connect(i)
       /\ (~connected[i] /\ (CallSendCommand(i) \/ CallClose(i))) =>
            /\ microtasks'[i] # microtasks[i]
            /\ microtasks'[i][Len(microtasks'[i])].kind = "reject"
            /\ microtasks'[i][Len(microtasks'[i])].value =
                 <<"N", "o", "t", " ", "c", "o", "n", "n", "e", "c", "t",
                   "e", "d", " ", "t", "o", " ", "I", "M", "A", "P", " ",
                   "s", "e", "r", "v", "e", "r">>]_vars

\* close() was called behind command 1, its LOGOUT was resolved and the
\* socket ended; a submission made afterwards is rejected.
C10_Witness ==
  \E i \in Clients :
    /\ \E k \in EndsOf(i) : history[i][k].id = 2
    /\ history[i][1].ev = "write" /\ history[i][1].id = 1
    /\ sockState[i] = "ended"
    /\ ~connected[i]
    /\ microtasks[i] = <<Task("none", 0, "reject", NotConnectedMessage)>>


(***************************************************************************)
(* IMAPParser (src/src/parser.js): static functions over response text.    *)
(***************************************************************************)
Quote == "\""

\* the variables of the client pipeline, which no parser touches
clientVars ==
  <<scenario, connected, commandCounter, responseBuffer, commandQueue,
    currentCommand, socket, sockState, wire, sentLines, received,
    pendingWrites, microtasks, uncaught, history>>

\* s.substring(k - 1)
Rest(s, k) == SubSeq(s, k, Len(s))

\* '.' of a regular expression: any character but a line terminator
AllDot(s) == \A k \in 1..Len(s) : s[k] \notin {"\n", "\r"}

SetMin(S) == CHOOSE x \in S : \A y \in S : x <= y
SetMax(S) == CHOOSE x \in S : \A y \in S : x >= y

\* The response texts of at most max lines drawn from lines.
Responses(lines, max) ==
  {Join(ls, NL) : ls \in UNION {[1..n -> lines] : n \in 1..max}}

\* No client is constructed; a response text is about to be parsed.
ParserInit(texts) ==
  /\ Constructed([clients |-> {}, cmds |-> 0, lines |-> 0, flags |-> {},
                  data |-> {}])
  /\ response \in texts
  /\ parsed = <<>>

\* ---- parseList ----
ListPrefix == <<"*", " ", "L", "I", "S", "T">>
ListOpen == ListPrefix \o <<" ", "(">>
ListClose == <<")", " ", Quote>>
ListBetween == <<Quote, " ", Quote>>

\* /" "(.+)"$/ at the start of r: the name is all that is left but the
\* closing quote
ListNameAt(r) ==
  /\ Len(r) >= Len(ListBetween) + 2
  /\ StartsWith(r, ListBetween)
  /\ r[Len(r)] = Quote
  /\ AllDot(SubSeq(r, Len(ListBetween) + 1, Len(r) - 1))

\* /\) "(.+)" "(.+)"$/ at the start of r: the lengths the delimiter group
\* can take
ListDelimiters(r) ==
  {m \in 1..(Len(r) - Len(ListClose) - Len(ListBetween) - 2) :
     /\ StartsWith(r, ListClose)
     /\ AllDot(SubSeq(r, Len(ListClose) + 1, Len(ListClose) + m))
     /\ ListNameAt(Rest(r, Len(ListClose) + m + 1))}

\* the lengths the lazy flags group can take
ListFlagLengths(line) ==
  {k \in 0..(Len(line) - Len(ListOpen)) :
     /\ AllDot(SubSeq(line, Len(ListOpen) + 1, Len(ListOpen) + k))
     /\ ListDelimiters(Rest(line, Len(ListOpen) + k + 1)) # {}}

\* line.match(/^\* LIST \((.*?)\) "(.+)" "(.+)"$/): no match is <<>>, a
\* match is the one-element sequence of its groups.  The lazy group takes
\* the shortest text that lets the rest match, the first greedy group the
\* longest.
ListMatch(line) ==
  IF ~StartsWith(line, ListOpen) \/ ListFlagLengths(line) = {} THEN <<>>
  ELSE LET k == SetMin(ListFlagLengths(line))
           r == Rest(line, Len(ListOpen) + k + 1)
           m == SetMax(ListDelimiters(r))
       IN <<[flags |-> SubSeq(line, Len(ListOpen) + 1, Len(ListOpen) + k),
             delimiter |-> SubSeq(r, Len(ListClose) + 1, Len(ListClose) + m),
             name |-> SubSeq(r, Len(ListClose) + m + Len(ListBetween) + 1,
                             Len(r) - 1)]>>

\* the entry pushed for a match, with the flags left as one string
ListEntryUnsplit(match) ==
  [flags |-> <<match.flags>>, delimiter |-> match.delimiter,
   name |-> match.name]

\* mailboxes.push({ flags: flags.split(' '), delimiter, name })
ListEntry(match) ==
  [flags |-> Split(match.flags, <<SP>>), delimiter |-> match.delimiter,
   name |-> match.name]

RECURSIVE ParseListLines(_)
ParseListLines(lines) ==
  IF lines = <<>> THEN <<>>
  ELSE LET line == Head(lines)
           match == IF StartsWith(line, ListPrefix) THEN ListMatch(line)
                    ELSE <<>>
       IN (IF match # <<>> THEN <<ListEntry(match[1])>> ELSE <<>>)
            \o ParseListLines(Tail(lines))

ParseList(text) == ParseListLines(Split(text, NL))

\* Lines a LIST response may hold: well formed ones, with no flag, with two
\* flags and a space in the name, and lines that miss the shape.
ListLines ==
  {
    <<"*", " ", "L", "I", "S", "T", " ", "(", "a", ")", " ", "\"", "/", "\"",
      " ", "\"", "b", "\"">>,
    <<"*", " ", "L", "I", "S", "T", " ", "(", ")", " ", "\"", "/", "\"", " ",
      "\"", "b", "\"">>,
    <<"*", " ", "L", "I", "S", "T", " ", "(", "a", " ", "c", ")", " ", "\"",
      "/", "\"", " ", "\"", "b", " ", "d", "\"">>,
    <<"*", " ", "L", "I", "S", "T", " ", "(", "a", ")", " ", "\"", "/", "\"",
      " ", "\"", "b", "\"", " ", "\"", "c", "\"">>,
    <<"*", " ", "L", "I", "S", "T", " ", "(", "a", ")", " ", "N", "I", "L",
      " ", "\"", "b", "\"">>,
    <<"*", " ", "L", "I", "S", "T", " ", "(", "a", ")", " ", "\"", "/", "\"",
      " ", "b">>,
    <<"*", " ", "L", "S", "U", "B", " ", "(", "a", ")", " ", "\"", "/", "\"",
      " ", "\"", "b", "\"">>,
    <<"*", " ", "L", "I", "S", "T", " ", "(", "a", ")", " ", "\"", "/", "\"",
      " ", "\"", "\"">>,
    <<"x", " ", "*", " ", "L", "I", "S", "T", " ", "(", "a", ")", " ", "\"",
      "/", "\"", " ", "\"", "b", "\"">>,
    <<"*", " ", "L", "I", "S", "T", " ", "(", "a", ")", " ", "\"", "/", "\"",
      " ", "\"", "b", "\"", " ">>,
    <<>>,
    <<"*", " ", "L", "I", "S", "T", " ", "(", "a", ")", " ", "c", ")", " ",
      "\"", "/", "\"", " ", "\"", "b", "\"">>
  }

\* A caller hands a response to IMAPParser.parseList.
CallParseList ==
  /\ parsed = <<>>
  /\ parsed' = <<ParseList(response)>>
  /\ UNCHANGED <<clientVars, response>>

ListSpec ==
  ParserInit(Responses(ListLines, ParserLines)) /\ [][CallParseList]_vars

\* The line '* LIST (' flags ') "' delimiter '" "' name '"'.
ListLineOf(flags, delimiter, name) ==
  ListOpen \o flags \o ListClose \o delimiter \o ListBetween \o name
    \o <<Quote>>

\* The line has the shape * LIST (<flags>) "<delimiter>" "<name>" with a
\* delimiter and a name of at least one character.
ListShaped(line) ==
  \E a \in 0..Len(line), b \in 1..Len(line) :
    /\ Len(line) - Len(ListLineOf(<<>>, <<>>, <<>>)) - a - b >= 1
    /\ LET c == Len(line) - Len(ListLineOf(<<>>, <<>>, <<>>)) - a - b
           f == Len(ListOpen)
           d == f + a + Len(ListClose)
           n == d + b + Len(ListBetween)
       IN line = ListLineOf(SubSeq(line, f + 1, f + a),
                            SubSeq(line, d + 1, d + b),
                            SubSeq(line, n + 1, n + c))

\* The entry reads the line as flags, delimiter and name, and its flags
\* are the pieces of the flags text between single spaces.
ListEntryOf(line, entry) ==
  /\ Len(entry.flags) >= 1
  /\ \A k \in 1..Len(entry.flags) :
       \A j \in 1..Len(entry.flags[k]) : entry.flags[k][j] # SP
  /\ entry.delimiter # <<>>
  /\ entry.name # <<>>
  /\ line = ListLineOf(Join(entry.flags, <<SP>>), entry.delimiter,
                       entry.name)

\* C11: parseList returns one entry per line of the shape
\* * LIST (<flags>) "<delimiter>" "<name>", in line order, holding the
\* space-split flags, the delimiter and the name of that line; every other
\* line contributes no entry.
C11_ListEntries ==
  parsed # <<>> =>
    LET shaped == SelectSeq(Split(response, NL), ListShaped)
    IN /\ Len(parsed[1]) = Len(shaped)
       /\ \A k \in 1..Len(shaped) : ListEntryOf(shaped[k], parsed[1][k])

\* A response of three lines whose second misses the shape (an unquoted
\* name) gave two entries, the second with two flags.
C11_Witness ==
  /\ parsed # <<>>
  /\ Len(Split(response, NL)) = 3
  /\ ~ListShaped(Split(response, NL)[2])
  /\ StartsWith(Split(response, NL)[2], ListPrefix)
  /\ Len(parsed[1]) = 2
  /\ Len(parsed[1][2].flags) = 2
  /\ parsed[1][1].flags = <<<<>>>>


\* ---- parseSelect ----
\* A JavaScript number that is an integer, and NaN.
Number(n) == [number |-> n, nan |-> FALSE]
NaN == [number |-> 0, nan |-> TRUE]

IsDigit(c) == \E d \in 1..Len(DigitChars) : DigitChars[d] = c
DigitValue(c) == (CHOOSE d \in 1..Len(DigitChars) : DigitChars[d] = c) - 1

\* the number of decimal digits at the start of s
LeadingDigits(s) ==
  SetMax({n \in 0..Len(s) : \A k \in 1..n : IsDigit(s[k])})

RECURSIVE DigitsValue(_)
DigitsValue(ds) ==
  IF ds = <<>> THEN 0
  ELSE 10 * DigitsValue(SubSeq(ds, 1, Len(ds) - 1)) + DigitValue(ds[Len(ds)])

IsWhiteSpace(c) == c \in {" ", "\t", "\n", "\r", "\f"}

\* the number of white space characters at the start of s
LeadingWhiteSpace(s) ==
  SetMax({n \in 0..Len(s) : \A k \in 1..n : IsWhiteSpace(s[k])})

\* parseInt(s): white space is skipped, a sign is read, then the longest
\* run of decimal digits; NaN when there is no digit there.
ParseInt(s) ==
  LET t == Rest(s, LeadingWhiteSpace(s) + 1)
      signed == t # <<>> /\ t[1] \in {"+", "-"}
      u == IF signed THEN Tail(t) ELSE t
      n == LeadingDigits(u)
  IN IF n = 0 THEN NaN
     ELSE IF signed /\ t[1] = "-"
          THEN Number(0 - DigitsValue(SubSeq(u, 1, n)))
          ELSE Number(DigitsValue(SubSeq(u, 1, n)))

\* String.prototype.includes
Includes(s, sub) == Occurrences(s, sub) # {}

\* line.match(/KEYWORD (\d+)/): the leftmost place where the keyword, a
\* space and a digit stand; the group is the longest run of digits there.
\* No match is <<>>, a match is <<group>>.
KeywordNumberMatch(line, keyword) ==
  LET at == {k \in Occurrences(line, keyword \o <<SP>>) :
               /\ k + Len(keyword) + 1 <= Len(line)
               /\ IsDigit(line[k + Len(keyword) + 1])}
  IN IF at = {} THEN <<>>
     ELSE LET r == Rest(line, SetMin(at) + Len(keyword) + 1)
          IN <<SubSeq(r, 1, LeadingDigits(r))>>

EXISTS == <<"E", "X", "I", "S", "T", "S">>
RECENT == <<"R", "E", "C", "E", "N", "T">>
UNSEEN == <<"U", "N", "S", "E", "E", "N">>
UIDVALIDITY == <<"U", "I", "D", "V", "A", "L", "I", "D", "I", "T", "Y">>
UIDNEXT == <<"U", "I", "D", "N", "E", "X", "T">>
FLAGS == <<"F", "L", "A", "G", "S">>

\* line.match(/FLAGS \((.*?)\)/): the leftmost 'FLAGS (' that a ')' follows
\* on the line; the lazy group ends at the first ')'.
FlagsMatch(line) ==
  LET open == FLAGS \o <<SP, "(">>
      at == {k \in Occurrences(line, open) :
               \E j \in (k + Len(open))..Len(line) :
                 /\ line[j] = ")"
                 /\ AllDot(SubSeq(line, k + Len(open), j - 1))}
  IN IF at = {} THEN <<>>
     ELSE LET k == SetMin(at)
              j == SetMin({j \in (k + Len(open))..Len(line) : line[j] = ")"})
          IN <<SubSeq(line, k + Len(open), j - 1)>>

\* const result = { exists: 0, recent: 0, unseen: null, ... }: null is <<>>
\* and a value v of a field that may be null is <<v>>.
SelectResult ==
  [exists |-> Number(0), recent |-> Number(0), unseen |-> <<>>,
   uidvalidity |-> <<>>, uidnext |-> <<>>, flags |-> <<>>]

\* parts[k] of an array (k counted from 0), undefined when absent
Part(parts, k) == IF k + 1 <= Len(parts) THEN parts[k + 1] ELSE Undefined

\* if (match) result.field = parseInt(match[1])
SetNumber(result, field, match) ==
  IF match = <<>> THEN result
  ELSE [result EXCEPT ![field] = <<ParseInt(match[1])>>]

\* the body of the loop of parseSelect for one line
SelectLine(result, line) ==
  IF ~StartsWith(line, <<"*", SP>>) THEN result
  ELSE LET parts == Split(Rest(line, 3), <<SP>>)
       IN IF Part(parts, 1) = EXISTS
            THEN [result EXCEPT !.exists = ParseInt(parts[1])]
          ELSE IF Part(parts, 1) = RECENT
            THEN [result EXCEPT !.recent = ParseInt(parts[1])]
          ELSE IF Includes(line, UNSEEN)
            THEN SetNumber(result, "unseen",
                           KeywordNumberMatch(line, UNSEEN))
          ELSE IF Includes(line, UIDVALIDITY)
            THEN SetNumber(result, "uidvalidity",
                           KeywordNumberMatch(line, UIDVALIDITY))
          ELSE IF Includes(line, UIDNEXT)
            THEN SetNumber(result, "uidnext",
                           KeywordNumberMatch(line, UIDNEXT))
          ELSE IF Includes(line, FLAGS)
            THEN LET match == FlagsMatch(line)
                 IN IF match = <<>> THEN result
                    ELSE [result EXCEPT !.flags = Split(match[1], <<SP>>)]
          ELSE result

RECURSIVE SelectLines(_, _)
SelectLines(result, lines) ==
  IF lines = <<>> THEN result
  ELSE SelectLines(SelectLine(result, Head(lines)), Tail(lines))

ParseSelect(text) == SelectLines(SelectResult, Split(text, NL))

\* Lines a SELECT response may hold: each keyword's line, a second EXISTS
\* and a second FLAGS line, the PERMANENTFLAGS response code, a line with
\* no keyword, a line that does not begin with '* ', a count that is no
\* number.
SelectTexts ==
  {
    <<"*", " ", "3", " ", "E", "X", "I", "S", "T", "S">>,
    <<"*", " ", "5", " ", "E", "X", "I", "S", "T", "S">>,
    <<"*", " ", "1", " ", "R", "E", "C", "E", "N", "T">>,
    <<"*", " ", "O", "K", " ", "[", "U", "N", "S", "E", "E", "N", " ", "2",
      "]">>,
    <<"*", " ", "O", "K", " ", "[", "U", "I", "D", "V", "A", "L", "I", "D",
      "I", "T", "Y", " ", "1", "]", " ", "U", "I", "D", "s", " ", "v", "a",
      "l", "i", "d">>,
    <<"*", " ", "O", "K", " ", "[", "U", "I", "D", "N", "E", "X", "T", " ",
      "4", "]">>,
    <<"*", " ", "F", "L", "A", "G", "S", " ", "(", "a", " ", "b", ")">>,
    <<"*", " ", "F", "L", "A", "G", "S", " ", "(", "c", ")">>,
    <<"*", " ", "O", "K", " ", "[", "P", "E", "R", "M", "A", "N", "E", "N",
      "T", "F", "L", "A", "G", "S", " ", "(", "d", ")", "]">>,
    <<"*", " ", "O", "K", " ", "x">>,
    <<"3", " ", "E", "X", "I", "S", "T", "S">>,
    <<"*", " ", "x", " ", "E", "X", "I", "S", "T", "S">>
  }

\* A caller hands a response to IMAPParser.parseSelect.
CallParseSelect ==
  /\ parsed = <<>>
  /\ parsed' = <<ParseSelect(response)>>
  /\ UNCHANGED <<clientVars, response>>

SelectSpec ==
  ParserInit(Responses(SelectTexts, ParserLines))
    /\ [][CallParseSelect]_vars

SelectFields ==
  {"exists", "recent", "unseen", "uidvalidity", "uidnext", "flags"}

\* the keyword that sets each field
SelectKeyword ==
  [exists |-> EXISTS, recent |-> RECENT, unseen |-> UNSEEN,
   uidvalidity |-> UIDVALIDITY, uidnext |-> UIDNEXT, flags |-> FLAGS]

IsLetter(c) ==
  c \in {"A", "B", "C", "D", "E", "F", "G", "H", "I", "J", "K", "L", "M",
         "N", "O", "P", "Q", "R", "S", "T", "U", "V", "W", "X", "Y", "Z"}

\* The line carries the keyword: the keyword stands on it as a whole word,
\* with no letter before or after it.
CarriesKeyword(line, keyword) ==
  \E k \in Occurrences(line, keyword) :
    /\ k = 1 \/ ~IsLetter(line[k - 1])
    /\ k + Len(keyword) > Len(line) \/ ~IsLetter(line[k + Len(keyword)])

\* what parseSelect returns for the first k lines of the response
SelectAfter(k) ==
  ParseSelect(Join(SubSeq(Split(response, NL), 1, k), NL))

\* The fields a well-formed line sets, written out line by line.
SelectSets(line) ==
  IF line = <<"*", " ", "3", " ", "E", "X", "I", "S", "T", "S">> THEN <<"exists", Number(3)>>
  ELSE IF line = <<"*", " ", "5", " ", "E", "X", "I", "S", "T", "S">> THEN <<"exists", Number(5)>>
  ELSE IF line = <<"*", " ", "1", " ", "R", "E", "C", "E", "N", "T">> THEN <<"recent", Number(1)>>
  ELSE IF line = <<"*", " ", "O", "K", " ", "[", "U", "N", "S", "E", "E", "N",
              " ", "2", "]">>
    THEN <<"unseen", <<Number(2)>> >>
  ELSE IF line =
            <<"*", " ", "O", "K", " ", "[", "U", "I", "D", "V", "A", "L",
              "I", "D", "I", "T", "Y", " ", "1", "]", " ", "U", "I", "D",
              "s", " ", "v", "a", "l", "i", "d">>
    THEN <<"uidvalidity", <<Number(1)>> >>
  ELSE IF line = <<"*", " ", "O", "K", " ", "[", "U", "I", "D", "N", "E", "X",
              "T", " ", "4", "]">>
    THEN <<"uidnext", <<Number(4)>> >>
  ELSE IF line = <<"*", " ", "F", "L", "A", "G", "S", " ", "(", "a", " ", "b",
              ")">>
    THEN <<"flags", <<<<"a">>, <<"b">>>> >>
  ELSE IF line = <<"*", " ", "F", "L", "A", "G", "S", " ", "(", "c", ")">> THEN <<"flags", <<<<"c">>>> >>
  ELSE <<>>

\* C12: parseSelect starts from the defaults and folds the lines that begin
\* with '* ' in order: a line changes at most one field, and only the field
\* of a keyword the line carries; a well-formed line sets its field
\* whatever an earlier line set; a line that carries no keyword, or does
\* not begin with '* ', changes nothing.
C12_SelectFold ==
  parsed # <<>> =>
    LET lines == Split(response, NL)
    IN /\ SelectAfter(0) =
            [exists |-> Number(0), recent |-> Number(0), unseen |-> <<>>,
             uidvalidity |-> <<>>, uidnext |-> <<>>, flags |-> <<>>]
       /\ parsed[1] = SelectAfter(Len(lines))
       /\ \A k \in 1..Len(lines) :
            LET changed == {f \in SelectFields :
                              SelectAfter(k)[f] # SelectAfter(k - 1)[f]}
            IN /\ Cardinality(changed) <= 1
               /\ \A f \in changed :
                    /\ StartsWith(lines[k], <<"*", SP>>)
                    /\ CarriesKeyword(lines[k], SelectKeyword[f])
               /\ SelectSets(lines[k]) # <<>> =>
                    SelectAfter(k) =
                      [SelectAfter(k - 1)
                         EXCEPT ![SelectSets(lines[k])[1]] =
                                  SelectSets(lines[k])[2]]


\* ---- parseSearch ----
SearchPrefix == <<"*", " ", "S", "E", "A", "R", "C", "H">>

\* String.prototype.trim
Trim(s) ==
  LET t == Rest(s, LeadingWhiteSpace(s) + 1)
      keep == SetMin({k \in 0..Len(t) :
                        \A j \in (k + 1)..Len(t) : IsWhiteSpace(t[j])})
  IN SubSeq(t, 1, keep)

\* response.match(/\* SEARCH(.*)/): the leftmost '* SEARCH' in the whole
\* text; the greedy group runs to the end of that line.
SearchMatch(text) ==
  IF Occurrences(text, SearchPrefix) = {} THEN <<>>
  ELSE LET r == Rest(text, SetMin(Occurrences(text, SearchPrefix))
                             + Len(SearchPrefix))
       IN <<SubSeq(r, 1, SetMax({n \in 0..Len(r) : AllDot(SubSeq(r, 1, n))}))>>

\* numbers.map(num => parseInt(num)).filter(num => !isNaN(num))
RECURSIVE ParsedNumbers(_)
ParsedNumbers(tokens) ==
  IF tokens = <<>> THEN <<>>
  ELSE (IF ParseInt(Head(tokens)).nan THEN <<>>
        ELSE <<ParseInt(Head(tokens)).number>>)
         \o ParsedNumbers(Tail(tokens))

ParseSearch(text) ==
  LET match == SearchMatch(text)
  IN IF match = <<>> THEN <<>>
     ELSE ParsedNumbers(Split(Trim(match[1]), <<SP>>))

\* fetchEmailCount: return IMAPParser.parseSearch(response).length
EmailCount(text) == Len(ParseSearch(text))

\* Lines a SEARCH response may hold: numbers, none, a token that is no
\* number, a token that begins with digits, a parenthesised modifier, two
\* spaces between numbers, and lines of other responses.
SearchTexts ==
  {
    <<"*", " ", "S", "E", "A", "R", "C", "H", " ", "1", " ", "2">>,
    <<"*", " ", "S", "E", "A", "R", "C", "H">>,
    <<"*", " ", "S", "E", "A", "R", "C", "H", " ", "1", "2">>,
    <<"*", " ", "S", "E", "A", "R", "C", "H", " ", "1", " ", "x">>,
    <<"*", " ", "S", "E", "A", "R", "C", "H", " ", "1", " ", "2", "x">>,
    <<"*", " ", "S", "E", "A", "R", "C", "H", " ", "2", " ", "(", "M", "O",
      "D", "S", "E", "Q", " ", "1", "2", ")">>,
    <<"*", " ", "O", "K", " ", "x">>,
    <<"*", " ", "S", "E", "A", "R", "C", "H", " ", "2", " ", " ", "1">>,
    <<"*", " ", "3", " ", "E", "X", "I", "S", "T", "S">>,
    <<>>
  }

\* A caller hands a response to IMAPParser.parseSearch.
CallParseSearch ==
  /\ parsed = <<>>
  /\ parsed' = <<ParseSearch(response)>>
  /\ UNCHANGED <<clientVars, response>>

SearchSpec ==
  ParserInit(Responses(SearchTexts, ParserLines))
    /\ [][CallParseSearch]_vars

\* The tokens that are integers, and the integer each one writes.
IntegerOf(token) ==
  IF token = <<"1">> THEN <<1>>
  ELSE IF token = <<"2">> THEN <<2>>
  ELSE IF token = <<"1", "2">> THEN <<12>>
  ELSE <<>>

RECURSIVE IntegersAmong(_)
IntegersAmong(tokens) ==
  IF tokens = <<>> THEN <<>>
  ELSE IntegerOf(Head(tokens)) \o IntegersAmong(Tail(tokens))

\* the SEARCH lines of the response, in order
SearchLinesOf(text) ==
  SelectSeq(Split(text, NL), LAMBDA line : StartsWith(line, SearchPrefix))

\* C13: parseSearch returns the integers that follow '* SEARCH' on the
\* SEARCH line, in order, and drops every token that is not a number; no
\* SEARCH line, or one with no number, gives the empty list; the count
\* fetchEmailCount returns is the length of that list.
C13_SearchNumbers ==
  parsed # <<>> =>
    LET found == SearchLinesOf(response)
        expected ==
          IF found = <<>> THEN <<>>
          ELSE IntegersAmong(Split(Rest(found[1], Len(SearchPrefix) + 1),
                                   <<SP>>))
    IN /\ parsed[1] = expected
       /\ EmailCount(response) = Len(expected)


\* ---- parseEnvelopeParts ----
NIL == <<"N", "I", "L">>
Backslash == "\\"

\* let current = '', depth = 0, inQuotes = false; const parts = []
PartsStart == [parts |-> <<>>, current |-> <<>>, depth |-> 0,
               inQuotes |-> FALSE]

\* if (current) parts.push(current)
PushCurrent(st) ==
  IF st.current # <<>> THEN Append(st.parts, st.current) ELSE st.parts

\* the body of the loop of parseEnvelopeParts for the character at i
\* (i counted from 1; envelope[i - 1] of the first character is undefined)
PartsStep(envelope, i, st) ==
  LET char == envelope[i]
      escaped == i > 1 /\ envelope[i - 1] = Backslash
  IN IF char = Quote /\ ~escaped
       THEN [st EXCEPT !.inQuotes = ~st.inQuotes,
                       !.current = Append(st.current, char)]
     ELSE IF char = "(" /\ ~st.inQuotes
       THEN [st EXCEPT !.depth = st.depth + 1,
                       !.current = Append(st.current, char)]
     ELSE IF char = ")" /\ ~st.inQuotes
       THEN [st EXCEPT !.depth = st.depth - 1,
                       !.current = Append(st.current, char)]
     ELSE IF char = SP /\ st.depth = 0 /\ ~st.inQuotes
       THEN [st EXCEPT !.parts = PushCurrent(st), !.current = <<>>]
     ELSE [st EXCEPT !.current = Append(st.current, char)]

\* the loop of parseEnvelopeParts over the characters lo..hi, from state
\* st: the first half of the range, and when that is done the second
\* (the test on half makes the state after the first half a value before
\* the second half runs)
RECURSIVE PartsScan(_, _, _, _)
PartsScan(envelope, lo, hi, st) ==
  IF lo > hi THEN st
  ELSE IF lo = hi THEN PartsStep(envelope, lo, st)
  ELSE LET mid == (lo + hi) \div 2
           half == PartsScan(envelope, lo, mid, st)
       IN IF half.depth = half.depth
            THEN PartsScan(envelope, mid + 1, hi, half)
            ELSE half

ParseEnvelopeParts(envelope) ==
  PushCurrent(PartsScan(envelope, 1, Len(envelope), PartsStart))

\* The fields of well-formed envelopes.  A string is NIL or quoted; in a
\* quoted string a quote and a backslash are written with a backslash
\* before them.
DateFields ==
  {
    <<"\"", "d", "\"">>,
    <<"N", "I", "L">>
  }

\* subjects: a word, two words, an opening parenthesis, a quoted word
\* before a space, a subject that ends with a backslash, none
SubjectFields ==
  {
    <<"\"", "s", "\"">>,
    <<"\"", "a", " ", "b", "\"">>,
    <<"\"", "(", "a", "\"">>,
    <<"\"", "\\", "\"", "a", "\\", "\"", " ", "b", "\"">>,
    <<"\"", "a", "\\", "\\", "\"">>,
    <<"N", "I", "L">>
  }

\* address lists: none, one address without a name, two addresses whose
\* names hold a space and a closing parenthesis
AddressFields ==
  {
    <<"N", "I", "L">>,
    <<"(", "(", "N", "I", "L", " ", "N", "I", "L", " ", "\"", "a", "\"", " ",
      "\"", "h", "\"", ")", ")">>,
    <<"(", "(", "\"", "J", " ", "D", "\"", " ", "N", "I", "L", " ", "\"",
      "a", "\"", " ", "\"", "h", "\"", ")", "(", "\"", "K", ")", "\"", " ",
      "N", "I", "L", " ", "\"", "b", "\"", " ", "\"", "h", "\"", ")", ")">>
  }

MessageIdFields ==
  {
    <<"\"", "<", "m", ">", "\"">>,
    <<"N", "I", "L">>
  }

\* (date subject from sender reply-to to cc bcc in-reply-to message-id)
EnvelopeFields ==
  {<<d, s, f, NIL, NIL, t, NIL, NIL, NIL, m>> :
     d \in DateFields, s \in SubjectFields, f \in AddressFields,
     t \in AddressFields, m \in MessageIdFields}

\* A caller hands the text of an envelope to parseEnvelopeParts.
CallParseEnvelopeParts ==
  /\ parsed = <<>>
  /\ parsed' = <<ParseEnvelopeParts(response)>>
  /\ UNCHANGED <<clientVars, response>>

PartsSpec ==
  ParserInit({Join(fields, <<SP>>) : fields \in EnvelopeFields})
    /\ [][CallParseEnvelopeParts]_vars

\* C16: parseEnvelopeParts ends a token exactly at a space outside quotes
\* at depth 0, where only an unescaped quote opens or closes a quoted
\* string: a well-formed envelope yields exactly its ten fields, and a
\* quoted field that holds spaces, parentheses or an escaped quote is one
\* field.
C16_TenFields ==
  parsed # <<>> =>
    /\ Len(parsed[1]) = 10
    /\ parsed[1] \in EnvelopeFields
    /\ Join(parsed[1], <<SP>>) = response


\* ---- parseEnvelope, parseAddressList, decodeValue ----
EnvelopeWord == <<"E", "N", "V", "E", "L", "O", "P", "E">>
EnvelopeOpen == EnvelopeWord \o <<SP, "(">>
TypeError == <<"T", "y", "p", "e", "E", "r", "r", "o", "r">>

\* line.match(/ENVELOPE \((.*?)\)(?:\))?$/): the leftmost 'ENVELOPE (' from
\* which the match succeeds.  The lazy group takes the shortest text after
\* which only ')' or '))' is left, so it ends two characters before the end
\* of a line that ends with '))' and one before the end otherwise.
EnvelopeMatch(line) ==
  LET closing(k) ==
        IF /\ Len(line) - 1 >= k + Len(EnvelopeOpen)
           /\ line[Len(line) - 1] = ")"
        THEN 2 ELSE 1
      group(k) == SubSeq(line, k + Len(EnvelopeOpen), Len(line) - closing(k))
      at == {k \in Occurrences(line, EnvelopeOpen) :
               /\ k + Len(EnvelopeOpen) <= Len(line)
               /\ line[Len(line)] = ")"
               /\ AllDot(group(k))}
  IN IF at = {} THEN <<>> ELSE <<group(SetMin(at))>>

\* value.replace(/"/g, '')
StripQuotes(value) == SelectSeq(value, LAMBDA c : c # Quote)

\* decodeValue(value): null is <<>>, a string v is <<v>>
DecodeValue(value) ==
  IF value = NIL THEN <<>> ELSE <<StripQuotes(value)>>

\* decodeValue(undefined) throws: undefined has no replace
DecodeThrows(value) == value = Undefined

\* addresses.match(/\((.*?)\)/g) from position from on: each match runs
\* from the next '(' to the first ')' after it
RECURSIVE TupleMatches(_, _)
TupleMatches(addresses, from) ==
  LET closingOf(k) ==
        SetMin({j \in (k + 1)..Len(addresses) : addresses[j] = ")"})
      opens == {k \in from..Len(addresses) :
                  /\ addresses[k] = "("
                  /\ \E j \in (k + 1)..Len(addresses) : addresses[j] = ")"
                  /\ AllDot(SubSeq(addresses, k + 1, closingOf(k) - 1))}
  IN IF opens = {} THEN <<>>
     ELSE LET k == SetMin(opens)
          IN <<SubSeq(addresses, k, closingOf(k))>>
               \o TupleMatches(addresses, closingOf(k) + 1)

\* match.slice(1, -1).split(' ')
TupleParts(match) == Split(SubSeq(match, 2, Len(match) - 1), <<SP>>)

\* if (addresses === 'NIL' || !addresses) return []
NoAddresses(addresses) == addresses = NIL \/ addresses = Undefined

\* addressList.push({ name: ..., sourceRoute: ..., mailbox: ..., host: ... })
AddressOf(match) ==
  LET parts == TupleParts(match)
  IN [name |-> DecodeValue(Part(parts, 0)),
      sourceRoute |-> DecodeValue(Part(parts, 1)),
      mailbox |-> DecodeValue(Part(parts, 2)),
      host |-> DecodeValue(Part(parts, 3))]

ParseAddressList(addresses) ==
  IF NoAddresses(addresses) THEN <<>>
  ELSE LET matches == TupleMatches(addresses, 1)
       IN [k \in 1..Len(matches) |-> AddressOf(matches[k])]

\* parseAddressList throws when a match has fewer than four parts
AddressListThrows(addresses) ==
  /\ ~NoAddresses(addresses)
  /\ LET matches == TupleMatches(addresses, 1)
     IN \E k \in 1..Len(matches) :
          \E c \in 0..3 : DecodeThrows(Part(TupleParts(matches[k]), c))

\* parts[k] ? parts[k].replace(/"/g, '') : ''
StringField(parts, k) ==
  IF Part(parts, k) = Undefined THEN <<>> ELSE StripQuotes(Part(parts, k))

\* parts[k] || 'NIL'
OrNil(parts, k) == IF Part(parts, k) = Undefined THEN NIL ELSE Part(parts, k)

\* result.push({ date: ..., ..., messageId: ... })
EnvelopeOf(parts) ==
  [date |-> StringField(parts, 0),
   subject |-> StringField(parts, 1),
   from |-> ParseAddressList(Part(parts, 2)),
   sender |-> ParseAddressList(Part(parts, 3)),
   replyTo |-> ParseAddressList(Part(parts, 4)),
   to |-> ParseAddressList(Part(parts, 5)),
   cc |-> ParseAddressList(OrNil(parts, 6)),
   bcc |-> ParseAddressList(OrNil(parts, 7)),
   inReplyTo |-> StringField(parts, 8),
   messageId |-> StringField(parts, 9)]

EnvelopeThrows(parts) ==
  \/ \E k \in 2..5 : AddressListThrows(Part(parts, k))
  \/ \E k \in 6..7 : AddressListThrows(OrNil(parts, k))

\* the groups of the lines that contain ENVELOPE and match, in line order
RECURSIVE EnvelopeGroups(_)
EnvelopeGroups(lines) ==
  IF lines = <<>> THEN <<>>
  ELSE (IF Includes(Head(lines), EnvelopeWord)
        THEN EnvelopeMatch(Head(lines)) ELSE <<>>)
         \o EnvelopeGroups(Tail(lines))

\* parseEnvelope: what the call does.  It throws a TypeError when an
\* address cannot be decoded; otherwise it returns result[0], an object,
\* when one envelope was found, and the array result when not.
ParseEnvelope(text) ==
  LET groups == EnvelopeGroups(Split(text, NL))
      parts == [k \in 1..Len(groups) |-> ParseEnvelopeParts(groups[k])]
      result == [k \in 1..Len(groups) |-> EnvelopeOf(parts[k])]
  IN IF \E k \in 1..Len(groups) : EnvelopeThrows(parts[k])
       THEN [kind |-> "throw", isArray |-> FALSE, value |-> TypeError]
     ELSE IF Len(groups) = 1
       THEN [kind |-> "return", isArray |-> FALSE, value |-> result[1]]
     ELSE [kind |-> "return", isArray |-> TRUE,
           value |-> SubSeq(result, 1, Len(groups))]

\* Lines of a FETCH response: an envelope with one sender and two
\* recipients, one whose sender's name is two words, one whose fields are
\* all NIL, one whose sender's name holds parentheses, and four lines that
\* carry no envelope.
FetchLine1 ==
  <<"*", " ", "1", " ", "F", "E", "T", "C", "H", " ", "(", "E", "N", "V",
    "E", "L", "O", "P", "E", " ", "(", "\"", "d", "\"", " ", "\"", "s", "\"",
    " ", "(", "(", "N", "I", "L", " ", "N", "I", "L", " ", "\"", "a", "\"",
    " ", "\"", "h", "\"", ")", ")", " ", "N", "I", "L", " ", "N", "I", "L",
    " ", "(", "(", "N", "I", "L", " ", "N", "I", "L", " ", "\"", "b", "\"",
    " ", "\"", "h", "\"", ")", "(", "\"", "N", "\"", " ", "N", "I", "L", " ",
    "N", "I", "L", " ", "\"", "h", "\"", ")", ")", " ", "N", "I", "L", " ",
    "N", "I", "L", " ", "N", "I", "L", " ", "\"", "<", "m", ">", "\"", ")",
    ")">>
FetchLine2 ==
  <<"*", " ", "2", " ", "F", "E", "T", "C", "H", " ", "(", "E", "N", "V",
    "E", "L", "O", "P", "E", " ", "(", "\"", "d", "\"", " ", "\"", "t", "\"",
    " ", "(", "(", "\"", "J", " ", "D", "\"", " ", "N", "I", "L", " ", "\"",
    "a", "\"", " ", "\"", "h", "\"", ")", ")", " ", "N", "I", "L", " ", "N",
    "I", "L", " ", "N", "I", "L", " ", "N", "I", "L", " ", "N", "I", "L",
    " ", "N", "I", "L", " ", "\"", "<", "m", ">", "\"", ")", ")">>
FetchLine3 ==
  <<"*", " ", "3", " ", "F", "E", "T", "C", "H", " ", "(", "E", "N", "V",
    "E", "L", "O", "P", "E", " ", "(", "N", "I", "L", " ", "N", "I", "L",
    " ", "N", "I", "L", " ", "N", "I", "L", " ", "N", "I", "L", " ", "N",
    "I", "L", " ", "N", "I", "L", " ", "N", "I", "L", " ", "N", "I", "L",
    " ", "N", "I", "L", ")", ")">>
FetchLine4 ==
  <<"*", " ", "4", " ", "F", "E", "T", "C", "H", " ", "(", "E", "N", "V",
    "E", "L", "O", "P", "E", " ", "(", "\"", "d", "\"", " ", "\"", "u", "\"",
    " ", "(", "(", "\"", "K", " ", "(", "L", ")", "\"", " ", "N", "I", "L",
    " ", "\"", "a", "\"", " ", "\"", "h", "\"", ")", ")", " ", "N", "I", "L",
    " ", "N", "I", "L", " ", "N", "I", "L", " ", "N", "I", "L", " ", "N",
    "I", "L", " ", "N", "I", "L", " ", "\"", "<", "m", ">", "\"", ")", ")">>
FetchTexts ==
  {FetchLine1, FetchLine2, FetchLine3, FetchLine4,
    <<"*", " ", "5", " ", "F", "E", "T", "C", "H", " ", "(", "F", "L", "A",
      "G", "S", " ", "(", "x", ")", ")">>,
    <<"*", " ", "O", "K", " ", "E", "N", "V", "E", "L", "O", "P", "E", " ",
      "x">>,
    <<>>,
    <<"*", " ", "O", "K", " ", "x">>
  }

\* A caller hands a response to IMAPParser.parseEnvelope.
CallParseEnvelope ==
  /\ parsed = <<>>
  /\ parsed' = <<ParseEnvelope(response)>>
  /\ UNCHANGED <<clientVars, response>>

EnvelopeSpec ==
  ParserInit(Responses(FetchTexts, ParserLines))
    /\ [][CallParseEnvelope]_vars

\* The line contains ENVELOPE followed by a parenthesised group that runs
\* to the end of the line.
HasEnvelopeGroup(line) ==
  /\ Includes(line, EnvelopeOpen)
  /\ line # <<>> /\ line[Len(line)] = ")"

\* the envelopes parseEnvelope returned, as a sequence
EnvelopesReturned ==
  IF parsed[1].isArray THEN parsed[1].value ELSE <<parsed[1].value>>

\* the subject written on a line, for the lines that write one
SubjectWritten(line) ==
  IF line = FetchLine1 THEN <<"s">>
  ELSE IF line = FetchLine2 THEN <<"t">>
  ELSE IF line = FetchLine4 THEN <<"u">>
  ELSE <<>>

\* C17: parseEnvelope returns one envelope per line that contains ENVELOPE
\* with a matching group, in line order; exactly one envelope is returned
\* as a single object, zero or several as the sequence.
C17_OnePerLine ==
  parsed # <<>> =>
    LET found == SelectSeq(Split(response, NL), HasEnvelopeGroup)
    IN /\ parsed[1].kind = "return"
       /\ parsed[1].isArray <=> Len(found) # 1
       /\ Len(EnvelopesReturned) = Len(found)
       /\ \A k \in 1..Len(found) :
            SubjectWritten(found[k]) # <<>> =>
              EnvelopesReturned[k].subject = SubjectWritten(found[k])


AddressFieldNames == {"from", "sender", "replyTo", "to", "cc", "bcc"}
StringFieldNames == {"date", "subject", "inReplyTo", "messageId"}
ComponentNames == {"name", "sourceRoute", "mailbox", "host"}

\* the lines of the response that carry an envelope, in order
EnvelopeLinesOf(text) == SelectSeq(Split(text, NL), HasEnvelopeGroup)

\* parseEnvelope returned, with one envelope for each line that carries one
ReturnedPerLine ==
  /\ parsed # <<>>
  /\ parsed[1].kind = "return"
  /\ Len(EnvelopesReturned) = Len(EnvelopeLinesOf(response))

\* The components written as NIL on a line: <<field, position of the tuple
\* in the list, component>>.
NilComponents(line) ==
  IF line = FetchLine1
    THEN {<<"from", 1, "name">>, <<"from", 1, "sourceRoute">>,
          <<"to", 1, "name">>, <<"to", 1, "sourceRoute">>,
          <<"to", 2, "sourceRoute">>, <<"to", 2, "mailbox">>}
  ELSE IF line = FetchLine2 \/ line = FetchLine4
    THEN {<<"from", 1, "sourceRoute">>}
  ELSE {}

\* C14: a component of an address 4-tuple written as NIL decodes to null
\* in the corresponding field of the address, whatever the position of the
\* tuple and of the component, and no component is a string that contains
\* NIL.
C14_NilComponents ==
  ReturnedPerLine =>
    \A k \in 1..Len(EnvelopesReturned) :
      LET envelope == EnvelopesReturned[k]
      IN /\ \A w \in NilComponents(EnvelopeLinesOf(response)[k]) :
              /\ Len(envelope[w[1]]) >= w[2]
              /\ envelope[w[1]][w[2]][w[3]] = <<>>
         /\ \A f \in AddressFieldNames :
              \A t \in 1..Len(envelope[f]) :
                \A c \in ComponentNames :
                  envelope[f][t][c] # <<>> =>
                    ~Includes(envelope[f][t][c][1], NIL)

\* The top-level fields written as NIL on a line.
NilFields(line) ==
  IF line = FetchLine3 THEN AddressFieldNames \cup StringFieldNames
  ELSE IF line = FetchLine1
    THEN {"sender", "replyTo", "cc", "bcc", "inReplyTo"}
  ELSE IF line = FetchLine2 \/ line = FetchLine4
    THEN {"sender", "replyTo", "to", "cc", "bcc", "inReplyTo"}
  ELSE {}

\* C15: a NIL in the date, subject, inReplyTo or messageId position never
\* yields the string 'NIL' in the result, and a NIL in an address list
\* position yields the empty sequence of addresses.
C15_NilFields ==
  ReturnedPerLine =>
    \A k \in 1..Len(EnvelopesReturned) :
      \A f \in NilFields(EnvelopeLinesOf(response)[k]) :
        IF f \in StringFieldNames
        THEN EnvelopesReturned[k][f] # <<"N", "I", "L">>
        ELSE EnvelopesReturned[k][f] = <<>>

\* an address whose components are written; <<>> is an absent component
Address(name, sourceRoute, mailbox, host) ==
  [name |-> name, sourceRoute |-> sourceRoute, mailbox |-> mailbox,
   host |-> host]

\* The addresses written in the address lists of a line that are not NIL.
AddressesWritten(line) ==
  IF line = FetchLine1
    THEN [from |-> <<Address(<<>>, <<>>, <<<<"a">>>>, <<<<"h">>>>)>>,
          to |-> <<Address(<<>>, <<>>, <<<<"b">>>>, <<<<"h">>>>),
                   Address(<<<<"N">>>>, <<>>, <<>>, <<<<"h">>>>)>>]
  ELSE IF line = FetchLine2
    THEN [from |-> <<Address(<<<<"J", " ", "D">>>>, <<>>, <<<<"a">>>>,
                             <<<<"h">>>>)>>]
  ELSE IF line = FetchLine4
    THEN [from |-> <<Address(<<<<"K", " ", "(", "L", ")">>>>, <<>>,
                             <<<<"a">>>>, <<<<"h">>>>)>>]
  ELSE <<>>

\* C20: an address list '((t1) (t2) ...)' gives one address per 4-tuple,
\* in order, whose four components are the name, source route, mailbox and
\* host of the tuple; a quoted name that holds a space is the one name and
\* shifts no other component.
C20_AddressLists ==
  parsed # <<>> =>
    /\ ReturnedPerLine
    /\ \A k \in 1..Len(EnvelopesReturned) :
         LET written == AddressesWritten(EnvelopeLinesOf(response)[k])
         IN \A f \in DOMAIN written :
              EnvelopesReturned[k][f] = written[f]


(***************************************************************************)
(* The pipeline again: lines that arrive while no command is current.      *)
(***************************************************************************)
\* The places in client i's history of the lines that arrived while no
\* command was current
DroppedLines(i) ==
  {l \in 1..Len(history[i]) :
     history[i][l].ev = "line" /\ history[i][l].id = 0}

\* The body of every command resolved after a dropped line is made of
\* lines that arrived after the command was written, which was after the
\* dropped line.
DroppedLinesStayOut ==
  \A i \in Clients : \A l \in DroppedLines(i) :
    \A k \in (l + 1)..Len(history[i]) :
      LET e == history[i][k]
      IN e.ev = "resolve" =>
           \E w \in WritesOf(i, e.id) :
             /\ l < w /\ w < k
             /\ e.data =
                  NewlineJoined(LinesBetween(i, w, k, ExpectedTag(e.id)))

\* C19: desync drop.  A data event that completes a line while no command
\* is current changes nothing: no command becomes current, the queue and
\* the tag counter stay as they are, no promise is settled, nothing is
\* written, and the history gains only the dropped lines; and no dropped
\* line is part of the body of a command resolved later.
C19_DesyncDrop ==
  [][/\ \A i \in Clients :
          ( /\ received'[i] # received[i]
            /\ currentCommand[i] = <<>>
            /\ HasCRLF(responseBuffer[i] \o ChunkReceived(i)) ) =>
            /\ currentCommand'[i] = <<>>
            /\ commandQueue'[i] = commandQueue[i]
            /\ commandCounter'[i] = commandCounter[i]
            /\ microtasks'[i] = microtasks[i]
            /\ pendingWrites'[i] = pendingWrites[i]
            /\ connected'[i] = connected[i]
            /\ socket'[i] = socket[i]
            /\ sockState'[i] = sockState[i]
            /\ Len(history'[i]) > Len(history[i])
            /\ SubSeq(history'[i], 1, Len(history[i])) = history[i]
            /\ \A k \in (Len(history[i]) + 1)..Len(history'[i]) :
                 /\ history'[i][k].ev = "line"
                 /\ history'[i][k].id = 0
      /\ DroppedLinesStayOut']_vars

\* A line arrived before any command was submitted and was dropped; the
\* command submitted afterwards was resolved with the one line that
\* arrived after it was written.
C19_Witness ==
  \E i \in Clients :
    /\ Len(history[i]) = 5
    /\ history[i][1] = Ev("line", 0, 1, <<"*", " ", "a">>)
    /\ history[i][2].ev = "write" /\ history[i][2].id = 1
    /\ history[i][3] = Ev("line", 1, 1, <<"*", " ", "b">>)
    /\ history[i][4] = Ev("line", 1, 1, <<"A", "1", " ", "O", "K">>)
    /\ history[i][5] = Ev("resolve", 1, 1, <<"*", " ", "b">>)


(***************************************************************************)
(* The facade: login, listMailboxes, selectMailbox, fetchEmailCount,       *)
(* fetchEmail (and close, above).                                          *)
(***************************************************************************)
\* `LOGIN ${username} ${password}`
LoginCommand(username, password) ==
  <<"L", "O", "G", "I", "N">> \o <<SP>> \o username \o <<SP>> \o password

\* 'LIST "" "*"'
ListCommand == <<"L", "I", "S", "T", " ", "\"", "\"", " ", "\"", "*", "\"">>

\* a SELECT that leaves the quotes out
SelectCommandUnquoted(mailbox) == <<"S", "E", "L", "E", "C", "T">> \o <<SP>> \o mailbox

\* `SELECT "${mailbox}"`
SelectCommand(mailbox) ==
  <<"S", "E", "L", "E", "C", "T">> \o <<SP, Quote>> \o mailbox \o <<Quote>>

\* `SEARCH ALL`
SearchCommand == <<"S", "E", "A", "R", "C", "H", " ", "A", "L", "L">>

\* `FETCH ${id} ENVELOPE`
FetchCommand(id) ==
  <<"F", "E", "T", "C", "H">> \o <<SP>> \o Decimal(id) \o <<SP>> \o EnvelopeWord

FacadeOps == {"login", "list", "select", "count", "fetch"}

\* What the operation makes of the resolved response: login returns it as
\* it is, the others return what their parser makes of it, and fetchEmail
\* throws what parseEnvelope throws.
FacadeOutcome(op, body) ==
  IF op = "login" THEN [kind |-> "return", value |-> body]
  ELSE IF op = "list" THEN [kind |-> "return", value |-> ParseList(body)]
  ELSE IF op = "select" THEN [kind |-> "return", value |-> ParseSelect(body)]
  ELSE IF op = "count" THEN [kind |-> "return", value |-> EmailCount(body)]
  ELSE LET envelope == ParseEnvelope(body)
       IN IF envelope.kind = "throw"
          THEN [kind |-> "throw", value |-> envelope.value]
          ELSE [kind |-> "return",
                value |-> [isArray |-> envelope.isArray,
                           value |-> envelope.value]]

\* The rest of a facade operation once the promise of its command is
\* settled: after a resolve it returns (or throws) its outcome, after a
\* reject the catch block logs and rethrows the error.  The client is left
\* as it is; the history records what the operation's promise gets.
FacadeContinuation(st, task) ==
  IF task.kind = "resolve"
  THEN LET outcome == FacadeOutcome(task.op, task.value)
       IN IF outcome.kind = "return"
          THEN [st EXCEPT
                  !.history =
                     Append(@, Ev("return", task.id, st.socket,
                                  [op |-> task.op, value |-> outcome.value]))]
          ELSE Thrown(st, [task EXCEPT !.value = outcome.value])
  ELSE Thrown(st, task)

\* The oldest pending promise reaction runs: the rest of a facade
\* operation, of close(), or code of the caller.
RunFacadeReaction(st) ==
  LET task == Head(st.microtasks)
      popped == [st EXCEPT !.microtasks = Tail(@)]
  IN IF task.op \in FacadeOps THEN FacadeContinuation(popped, task)
     ELSE RunReaction(st)

\* The arguments callers pass.
Usernames == {<<"u">>}
Passwords == {<<"p">>}
MailboxNames == {<<"m">>}
MessageNumbers == {12}

\* A caller calls login(username, password).
CallLogin(i) ==
  /\ MayCall(i)
  /\ \E username \in Usernames, password \in Passwords :
       Commit(i, SendCommand(This(i), LoginCommand(username, password),
                             FALSE, "login"))
  /\ EnvUnchanged

\* A caller calls listMailboxes().
CallListMailboxes(i) ==
  /\ MayCall(i)
  /\ Commit(i, SendCommand(This(i), ListCommand, TRUE, "list"))
  /\ EnvUnchanged

\* A caller calls selectMailbox(mailbox).
CallSelectMailbox(i) ==
  /\ MayCall(i)
  /\ \E mailbox \in MailboxNames :
       Commit(i, SendCommand(This(i), SelectCommand(mailbox), FALSE,
                             "select"))
  /\ EnvUnchanged

\* A caller calls fetchEmailCount().
CallFetchEmailCount(i) ==
  /\ MayCall(i)
  /\ Commit(i, SendCommand(This(i), SearchCommand, FALSE, "count"))
  /\ EnvUnchanged

\* A caller calls fetchEmail(id).
CallFetchEmail(i) ==
  /\ MayCall(i)
  /\ \E id \in MessageNumbers :
       Commit(i, SendCommand(This(i), FetchCommand(id), FALSE, "fetch"))
  /\ EnvUnchanged

\* A pending promise reaction runs.
FacadeReaction(i) ==
  /\ microtasks[i] # <<>>
  /\ Commit(i, RunFacadeReaction(This(i)))
  /\ EnvUnchanged

FacadeNext ==
  \E i \in Clients :
    \/ Connect(i)
    \/ CallLogin(i)
    \/ CallListMailboxes(i)
    \/ CallSelectMailbox(i)
    \/ CallFetchEmailCount(i)
    \/ CallFetchEmail(i)
    \/ CallClose(i)
    \/ FacadeReaction(i)
    \/ ServerSend(i)
    \/ DataEvent(i)
    \/ WriteFailed(i)
    \/ SocketClose(i)

\* A program that uses one client through its facade
FacadeSpec ==
  /\ Init(Scenario({"c1"}, FacadeCmds, FacadeLines, {TRUE}, {UntaggedLine}))
  /\ [][FacadeNext]_vars


\* The command text of each operation, written out for the arguments the
\* callers pass.
CommandTextOf ==
  [login |->
      <<"L", "O", "G", "I", "N", " ", "u", " ", "p">>,
   list |->
      <<"L", "I", "S", "T", " ", "\"", "\"", " ", "\"", "*", "\"">>,
   select |->
      <<"S", "E", "L", "E", "C", "T", " ", "\"", "m", "\"">>,
   count |->
      <<"S", "E", "A", "R", "C", "H", " ", "A", "L", "L">>,
   fetch |->
      <<"F", "E", "T", "C", "H", " ", "1", "2", " ", "E", "N", "V", "E", "L",
        "O", "P", "E">>,
   close |->
      <<"L", "O", "G", "O", "U", "T">>]

\* the command objects client i holds: the current one and the queued ones
HeldCommands(i) == currentCommand[i] \o commandQueue[i]

\* Client i, connected, was called through operation op in this step: one
\* tag was allocated, one command object was added, with the text of the
\* operation, and nothing but its line was written.
SubmitsOne(i, op) ==
  /\ commandCounter'[i] = commandCounter[i] + 1
  /\ Len(HeldCommands(i)') = Len(HeldCommands(i)) + 1
  /\ SubSeq(HeldCommands(i)', 1, Len(HeldCommands(i))) = HeldCommands(i)
  /\ LET added == HeldCommands(i)'[Len(HeldCommands(i)')]
     IN /\ added.command = CommandTextOf[op]
        /\ added.id = commandCounter'[i]
        /\ \/ history'[i] = history[i]
           \/ history'[i] =
                Append(history[i],
                       Ev("write", added.id, socket[i],
                          ExpectedTag(added.id) \o <<SP>>
                            \o CommandTextOf[op] \o CRLF))

\* the settlement of command c recorded in client i's history is this one
SettledWith(i, c, kind, value) ==
  \E k \in SettlementsOf(i, c) :
    history[i][k].ev = kind /\ history[i][k].data = value

\* The reaction of a facade operation ran in this step: nothing was
\* submitted or written; after a reject the operation threw the error its
\* command was rejected with; after a resolve, login returned the body its
\* command was resolved with.
SettlesOperation(i, task) ==
  /\ commandCounter'[i] = commandCounter[i]
  /\ commandQueue'[i] = commandQueue[i]
  /\ currentCommand'[i] = currentCommand[i]
  /\ pendingWrites'[i] = pendingWrites[i]
  /\ task.kind = "reject" =>
       IF task.id = 0
       THEN /\ history'[i] = history[i]
            /\ task.value = NotConnectedMessage
       ELSE /\ SettledWith(i, task.id, "reject", task.value)
            /\ history'[i] =
                 Append(history[i],
                        Ev("throw", task.id, socket[i], task.value))
  /\ (task.kind = "resolve" /\ task.op = "login") =>
       /\ SettledWith(i, task.id, "resolve", task.value)
       /\ history'[i] =
            Append(history[i],
                   Ev("return", task.id, socket[i],
                      [op |-> "login", value |-> task.value]))

\* C18: each facade operation submits exactly one command per call, with
\* the text of the operation; login returns the resolved body unchanged;
\* an operation whose command is rejected rejects with that same error and
\* submits nothing else.  Every line written is the line of one operation,
\* and no command is written twice.
C18_Facade ==
  [][\A i \in Clients :
       /\ connected[i] =>
            /\ CallLogin(i) => SubmitsOne(i, "login")
            /\ CallListMailboxes(i) => SubmitsOne(i, "list")
            /\ CallSelectMailbox(i) => SubmitsOne(i, "select")
            /\ CallFetchEmailCount(i) => SubmitsOne(i, "count")
            /\ CallFetchEmail(i) => SubmitsOne(i, "fetch")
            /\ CallClose(i) => SubmitsOne(i, "close")
       /\ (FacadeReaction(i) /\ Head(microtasks[i]).op \in FacadeOps) =>
            SettlesOperation(i, Head(microtasks[i]))
       /\ \A c \in 1..commandCounter'[i] :
            /\ Cardinality({k \in 1..Len(history'[i]) :
                              /\ history'[i][k].ev = "write"
                              /\ history'[i][k].id = c}) <= 1
            /\ \A k \in 1..Len(history'[i]) :
                 (history'[i][k].ev = "write" /\ history'[i][k].id = c) =>
                   \E op \in DOMAIN CommandTextOf :
                     history'[i][k].data =
                       ExpectedTag(c) \o <<SP>> \o CommandTextOf[op] \o CRLF
     ]_vars

\* login was resolved with the line that arrived before its OK and
\* returned it; the command of a second operation was rejected and the
\* operation threw.
C18_Witness ==
  \E i \in Clients :
    /\ \E k \in 1..Len(history[i]) :
         /\ history[i][k].ev = "return"
         /\ history[i][k].id = 1
         /\ history[i][k].data.op = "login"
         /\ history[i][k].data.value = <<"*", " ", "a">>
    /\ \E k \in 1..Len(history[i]) :
         /\ history[i][k].ev = "throw"
         /\ history[i][k].id = 2
    /\ \E k \in 1..Len(history[i]) :
         /\ history[i][k].ev = "write"
         /\ history[i][k].id = 2
         /\ history[i][k].data =
              <<"A", "2", " ", "S", "E", "L", "E", "C", "T", " ", "\"", "m",
                "\"", "\r", "\n">>


(***************************************************************************)
(* The pipeline again: lines that begin with the characters of a tag.      *)
(***************************************************************************)
\* A tagged line of a command far ahead: A10 OK
LongerTagLine == TaggedLine(10, OK)

\* A line of a fetched body that begins like a tag: A1x
BodyLine == TagOf(1) \o <<"x">>

\* One client and a server that sends, besides the lines of Spec, the two
\* lines above.
TagSpec ==
  /\ Init(Scenario({"c1"}, TagCmds, TagLines, {TRUE},
                   {UntaggedLine, LongerTagLine, BodyLine}))
  /\ [][Next]_vars

\* line.split(' ')[0]: the first space-delimited token of a line
FirstToken(line) == Split(line, <<SP>>)[1]

\* The k-th event of client i's history is a line, and it completed the
\* command that was current: the next event resolves the command, or
\* rejects it with the line in the error.
CompletedByLine(i, k) ==
  /\ k < Len(history[i])
  /\ LET l == history[i][k]
         e == history[i][k + 1]
     IN /\ e.id = l.id
        /\ \/ e.ev = "resolve"
           \/ e.ev = "reject" /\ e.data = CommandFailedMessage(l.data)

\* C21: tag matching is exact.  A line that arrives while a command is
\* current completes the command (resolves it, or rejects it with Command
\* failed) if and only if the first space-delimited token of the line is
\* the tag of the command; any other line, one that begins with the
\* characters of the tag included, settles nothing.
C21_ExactTag ==
  \A i \in Clients : \A k \in 1..Len(history[i]) :
    LET l == history[i][k]
    IN (l.ev = "line" /\ l.id # 0) =>
         (CompletedByLine(i, k) <=> FirstToken(l.data) = ExpectedTag(l.id))


(***************************************************************************)
(* The pipeline again: work waiting, and the line of the current command.  *)
(***************************************************************************)
\* The line of command c: its tag, a space, its command text and CRLF
LineOf(c, command) == ExpectedTag(c) \o <<SP>> \o command \o <<"\r", "\n">>

\* Command c of client i has been current: it is current, or it has been
\* resolved or rejected, or a line has arrived for it.
HasBeenCurrent(i, c) ==
  \/ c \in CurrentIds(i)
  \/ \E k \in 1..Len(history[i]) :
       history[i][k].id = c /\ history[i][k].ev \in {"line", "resolve", "reject"}

\* Client i is not idle with work waiting, and the line of every command
\* that has been current was written once, before anything else happened
\* to the command; the line of no other command was written.
WrittenWhenCurrent(i) ==
  /\ commandQueue[i] # <<>> => currentCommand[i] # <<>>
  /\ \A c \in Accepted(i) :
       /\ Cardinality(WritesOf(i, c)) = (IF HasBeenCurrent(i, c) THEN 1 ELSE 0)
       /\ \A w \in WritesOf(i, c) :
            /\ \A k \in 1..(w - 1) : history[i][k].id # c
            /\ history[i][w].data \in
                 {LineOf(c, NoopCommand), LineOf(c, LogoutCommand)}
  /\ \A c \in CurrentIds(i) : \A w \in WritesOf(i, c) :
       history[i][w].data = LineOf(c, currentCommand[i][1].command)

\* The command that is current on client i after the step was not current
\* before it.
BecomesCurrent(i) ==
  /\ currentCommand'[i] # <<>>
  /\ currentCommand[i] # <<>> => currentCommand'[i][1].id # currentCommand[i][1].id

\* C22: the pipeline is never idle with work waiting.  In every state a
\* non-empty queue means that a command is current; a command is written
\* once if it has been current and not at all while it waits in the queue;
\* and the step in which a command becomes current, a submission to an
\* idle pipeline or an advance, is the step that writes its line, tag,
\* space, command text and CRLF.
C22_NeverIdle ==
  [][\A i \in Clients :
       /\ WrittenWhenCurrent(i)'
       /\ BecomesCurrent(i) =>
            LET c == currentCommand'[i][1]
            IN \E w \in (Len(history[i]) + 1)..Len(history'[i]) :
                 history'[i][w] =
                   Ev("write", c.id, socket'[i], LineOf(c.id, c.command))]_vars

\* Command 1 was completed while two commands waited: command 2 became
\* current by the advance and its line was written, command 3 waits.
C22_Witness ==
  \E i \in Clients :
    /\ SettlementsOf(i, 1) # {}
    /\ CurrentIds(i) = {2}
    /\ QueuedIds(i) = {3}
    /\ \E w \in WritesOf(i, 2) : \A k \in SettlementsOf(i, 1) : k < w


(***************************************************************************)
(* The pipeline again: the callback of a write whose command is no longer  *)
(* current.                                                                *)
(***************************************************************************)
\* The places in client i's history where a line was written
WritePositions(i) == {k \in 1..Len(history[i]) : history[i][k].ev = "write"}

\* The command whose write fails in this step.  The pending callbacks are
\* those of the last writes, oldest first; the step takes the callbacks up
\* to the failing one off the list and adds that of the line it writes, if
\* it writes one.
FailedCommand(i) ==
  LET W == WritePositions(i)
      new == {k \in (Len(history[i]) + 1)..Len(history'[i]) :
                history'[i][k].ev = "write"}
      n == Cardinality(W) - Len(pendingWrites'[i]) + Cardinality(new)
      w == CHOOSE v \in W : Cardinality({u \in W : u <= v}) = n
  IN history[i][w].id

\* Command c of client i was completed by a tagged line.
CompletedByTaggedLine(i, c) ==
  \E k \in 1..Len(history[i]) :
    /\ history[i][k].ev = "line"
    /\ history[i][k].id = c
    /\ CompletedByLine(i, k)

\* C23: a write-failure callback affects only the command whose write
\* failed.  When that command was completed by a tagged line before the
\* callback runs, the callback rejects no command, leaves the current
\* command and the queue as they are, writes nothing, and does not throw,
\* whether another command is current or none.
C23_StaleWriteFailure ==
  [][\A i \in Clients :
       (WriteFailed(i) /\ CompletedByTaggedLine(i, FailedCommand(i))) =>
         /\ history'[i] = history[i]
         /\ microtasks'[i] = microtasks[i]
         /\ currentCommand'[i] = currentCommand[i]
         /\ commandQueue'[i] = commandQueue[i]
         /\ uncaught'[i] = uncaught[i]]_vars


(***************************************************************************)
(* connect() called again after the transport has closed.                  *)
(***************************************************************************)
\* The caller calls connect() once more on a client whose socket has
\* emitted 'close', and the connection is made: the callback of
\* tls.connect / net.createConnection runs on the new socket.  Nothing
\* else of the client is touched.
Reconnect(i) ==
  /\ i \in scenario.clients
  /\ NoMicrotasks
  /\ sockState[i] = "closed"
  /\ socket[i] < MaxSockets
  /\ Commit(i, ConnectCallback(This(i)))
  /\ wire' = [wire EXCEPT ![i] = <<>>]
  /\ UNCHANGED <<scenario, response, parsed, sentLines, received>>

\* A caller that connects again after a closure.  Every write is flushed
\* before the connection closes: no write reports an error.
ReconnectNext ==
  \E i \in Clients :
    \/ Connect(i)
    \/ Reconnect(i)
    \/ CallSendCommand(i)
    \/ CallClose(i)
    \/ Reaction(i)
    \/ ServerSend(i)
    \/ DataEvent(i)
    \/ SocketClose(i)

ReconnectSpec ==
  /\ Init(Scenario({"c1"}, ReconnectCmds, ReconnectLines, {TRUE},
                   {UntaggedLine}))
  /\ [][ReconnectNext]_vars

\* Client i accepts a command in this step.
AcceptsCommand(i) == commandCounter'[i] = commandCounter[i] + 1

\* The line of command c was written to socket n of client i.
WrittenTo(i, c, n) == \E w \in WritesOf(i, c) : history[i][w].sock = n

\* C24: recovery after transport closure.  On a client that was connected
\* again after a closure, a command that is accepted is written to the new
\* socket in the same step, or it waits behind a current command that was
\* written to the new socket, so that the replies of the new connection
\* can complete it; and every line delivered to the pipeline is a line the
\* server sent, with no characters of the closed connection in front of it.
C24_Recovery ==
  [][\A i \in Clients :
       /\ (socket[i] >= 2 /\ AcceptsCommand(i)) =>
            \/ \E w \in (Len(history[i]) + 1)..Len(history'[i]) :
                 /\ history'[i][w].ev = "write"
                 /\ history'[i][w].id = commandCounter'[i]
                 /\ history'[i][w].sock = socket[i]
            \/ /\ currentCommand[i] # <<>>
               /\ WrittenTo(i, currentCommand[i][1].id, socket[i])
       /\ \A k \in (Len(history[i]) + 1)..Len(history'[i]) :
            history'[i][k].ev = "line" =>
              \E j \in 1..Len(sentLines[i]) :
                sentLines[i][j] = history'[i][k].data]_vars


(***************************************************************************)
(* The framer again: one byte stream, cut into chunks in two ways.         *)
(***************************************************************************)
\* The server sends the same character to every client of the program.
StreamSend ==
  /\ \A i \in scenario.clients :
       /\ sockState[i] = "open"
       /\ Len(received[i]) + Len(wire[i]) < ChunkBytes
  /\ \E c \in {"a", "\r", "\n"} :
       wire' = [i \in Clients |->
                  IF i \in scenario.clients THEN Append(wire[i], c)
                  ELSE wire[i]]
  /\ UNCHANGED <<scenario, response, parsed, connected, commandCounter,
                 responseBuffer, commandQueue, currentCommand, socket,
                 sockState, sentLines, received, pendingWrites, microtasks,
                 uncaught, history>>

\* The socket's 'data' event with a chunk of any length, none included
DataEventChunk(i) == \E n \in 0..Len(wire[i]) : DataArrives(i, n)

\* Two connected clients are sent the same stream; the transport of each
\* cuts it into chunks on its own.
ChunkNext ==
  \/ StreamSend
  \/ \E i \in Clients : Connect(i)
  \/ \E i \in Clients : DataEventChunk(i)

ChunkSpec ==
  /\ Init(Scenario(Clients, 0, 0, {TRUE}, {UntaggedLine}))
  /\ [][ChunkNext]_vars

IsPrefix(s, t) == Len(s) <= Len(t) /\ SubSeq(t, 1, Len(s)) = s

\* C25: framing is independent of chunking.  Two framers that are given
\* the same stream of characters in chunks cut differently have, once they
\* have received the same characters, delivered the same lines and hold
\* the same tail; while one has received less than the other it has
\* delivered the first of the other's lines; and the tail of neither holds
\* a CRLF after a chunk.
C25_Chunking ==
  \A i, j \in Clients :
    /\ ~HasCRLF(responseBuffer[i])
    /\ IsPrefix(received[i], received[j]) =>
         IsPrefix(LinesOf(history[i]), LinesOf(history[j]))
    /\ received[i] = received[j] =>
         /\ LinesOf(history[i]) = LinesOf(history[j])
         /\ responseBuffer[i] = responseBuffer[j]

\* Both clients have received the stream a CR LF a, each in chunks of its
\* own (the state is reached by every pair of cuts, those with a chunk
\* that ends between the CR and the LF among them); both have delivered
\* the line a and hold the tail a.
C25_Witness ==
  /\ received["c1"] = <<"a", "\r", "\n", "a">>
  /\ received["c2"] = received["c1"]
  /\ LinesOf(history["c1"]) = <<<<"a">>>>
  /\ LinesOf(history["c2"]) = <<<<"a">>>>
  /\ responseBuffer["c1"] = <<"a">>
  /\ responseBuffer["c2"] = <<"a">>


(***************************************************************************)
(* parseSelect again: the lines that set the flags.                        *)
(***************************************************************************)
\* An untagged FLAGS line begins with * FLAGS and a space.
IsFlagsLine(line) == StartsWith(line, <<"*", SP>> \o FLAGS \o <<SP>>)

\* C26: the flags field of parseSelect is set only by an untagged FLAGS
\* line.  Folding the lines of the response in order, the flags change
\* only at a line that begins with '* FLAGS '; every other line, a line of
\* another keyword that contains the text FLAGS included, leaves the flags
\* of the lines before it as they are.
C26_FlagsLineOnly ==
  parsed # <<>> =>
    LET lines == Split(response, NL)
    IN /\ parsed[1] = SelectAfter(Len(lines))
       /\ \A k \in 1..Len(lines) :
            ~IsFlagsLine(lines[k]) =>
              SelectAfter(k).flags = SelectAfter(k - 1).flags

====
